---- MODULE Spec2Model ----
(***************************************************************************)
(* A model of qtoml: the TOML decoder (qtoml/decoder.py), the encoder      *)
(* (qtoml/encoder.py) and the format-preserving tree (qtoml/tomldict.py).  *)
(*                                                                         *)
(* Representation.  A Python str is a sequence of code points (naturals),  *)
(* so ord() and chr() are the identity and "\n" is <<10>>.  A Python value *)
(* is a record [tag, val]: tag is the Python type name and val the payload *)
(* (code points for "str", a number for "int", a BOOLEAN for "bool",       *)
(* <<year, month, day>> for "date", the elements for "list", and for       *)
(* "dict" the items in insertion order, each [k |-> key, v |-> value]).    *)
(***************************************************************************)
EXTENDS Integers, Sequences, FiniteSets, TLC

\* ------------------------------------------------------------ characters
TAB == 9
NL  == 10
SPC == 32
DQ  == 34
SQ  == 39
DOT == 46
BSL == 92
DEL == 127
Ch_a == 97
Ch_b == 98
Ch_0 == 48
Ch_1 == 49
Ch_u == 117
Ch_U == 85
Ch_us == 95
Ch_minus == 45
Ch_plus == 43

\* ------------------------------------------------------- Python str ops
Range(s) == {s[i] : i \in 1..Len(s)}
Min(a, b) == IF a < b THEN a ELSE b
Max(a, b) == IF a > b THEN a ELSE b

\* s[a:b] for 0 <= a
Slice(s, a, b) ==
    LET e == Min(b, Len(s))
    IN  IF e <= a THEN <<>> ELSE SubSeq(s, a + 1, e)

\* s[:-k] for k > 0
DropLast(s, k) == Slice(s, 0, Max(Len(s) - k, 0))

\* s.find(sub, start): the least index >= start where sub occurs, else -1
Find(s, sub, start) ==
    LET hits == {i \in start..(Len(s) - Len(sub)) : Slice(s, i, i + Len(sub)) = sub}
    IN  IF hits = {} THEN -1 ELSE CHOOSE i \in hits : \A j \in hits : i <= j

\* s.rfind(sub, 0, end): the greatest index where sub occurs inside s[0:end], else -1
RFind(s, sub, end) ==
    LET hits == {i \in 0..(Min(end, Len(s)) - Len(sub)) : Slice(s, i, i + Len(sub)) = sub}
    IN  IF hits = {} THEN -1 ELSE CHOOSE i \in hits : \A j \in hits : i >= j

Contains(s, sub) == Find(s, sub, 0) # -1
startswith(s, d) == Slice(s, 0, Len(d)) = d
endswith(s, d) == Len(s) >= Len(d) /\ Slice(s, Len(s) - Len(d), Len(s)) = d
Count(s, c) == Cardinality({i \in 1..Len(s) : s[i] = c})

\* ------------------------------------------------------------ ParseState
ParseState(string) == [string |-> string, index |-> 0, line |-> 1, col |-> 0]

at_string(p, s) == Slice(p.string, p.index, p.index + Len(s)) = s

at_end(p) == p.index >= Len(p.string)

get(p, n) == Slice(p.string, p.index, p.index + n)

\* advance returns the consumed text d and the moved state p
advance(p, n) ==
    LET d  == Slice(p.string, p.index, p.index + n)
        lc == Count(d, NL)
        lastnl == RFind(d, <<NL>>, Len(d))
        cc == Len(d) - (lastnl + 1)
    IN  [d |-> d,
         p |-> [p EXCEPT !.line = p.line + lc,
                         !.col = IF lc > 0 THEN cc ELSE p.col + cc,
                         !.index = p.index + n]]

advance_through_class(p, cls) ==
    LET stops == {i \in p.index..Len(p.string) :
                     ~(i < Len(p.string) /\ p.string[i + 1] \in cls)}
        i == CHOOSE x \in stops : \A y \in stops : x <= y
    IN  advance(p, i - p.index)

advance_until(p, s) ==
    LET f == Find(p.string, s, p.index)
        i == IF f = -1 THEN Len(p.string) ELSE f + Len(s)
    IN  advance(p, i - p.index)

\* backtrack that takes n from the column and does not look for the line start
backtrack_in_line(p, n) ==
    IF p.index <= n
    THEN [p EXCEPT !.index = 0, !.line = 1, !.col = 0]
    ELSE [p EXCEPT !.line = p.line - Count(Slice(p.string, p.index - n, p.index), NL),
                   !.index = p.index - n,
                   !.col = p.col - n]

backtrack(p, n) ==
    IF p.index <= n
    THEN [p EXCEPT !.index = 0, !.line = 1, !.col = 0]
    ELSE LET d  == Slice(p.string, p.index - n, p.index)
             lc == Count(d, NL)
             ls == RFind(p.string, <<NL>>, p.index - n) + 1
         IN  [p EXCEPT !.line = p.line - lc,
                       !.index = p.index - n,
                       !.col = (p.index - n) - ls]

\* (prefix of characters in cls, remainder)
class_partition(cls, string) ==
    LET stops == {i \in 0..Len(string) : ~(i < Len(string) /\ string[i + 1] \in cls)}
        lc == CHOOSE x \in stops : \A y \in stops : x <= y
    IN  <<Slice(string, 0, lc), Slice(string, lc, Len(string))>>

\* (remainder, suffix of characters in cls)
class_rpartition(cls, string) ==
    LET stops == {i \in 0..Len(string) :
                     ~(i < Len(string) /\ string[Len(string) - i] \in cls)}
        lc == CHOOSE x \in stops : \A y \in stops : x <= y
    IN  IF lc = 0 THEN <<string, <<>>>>
        ELSE <<Slice(string, 0, Len(string) - lc), Slice(string, Len(string) - lc, Len(string))>>

\* ------------------------------------------------- results of an operation
\* st is "ok" or the name of the Python exception class that was raised
Ok(val, p) == [st |-> "ok", msg |-> "", val |-> val, p |-> p]
Raise(kind, msg, p) == [st |-> kind, msg |-> msg, val |-> <<>>, p |-> p]

\* --------------------------------------------------- Python int() and chr()
PyWhitespace == {9, 10, 11, 12, 13, 28, 29, 30, 31, 32}

DigitVal(c) ==
    IF c >= 48 /\ c <= 57 THEN c - 48
    ELSE IF c >= 97 /\ c <= 122 THEN c - 87
    ELSE IF c >= 65 /\ c <= 90 THEN c - 55
    ELSE 99

IsDigitOf(c, base) == DigitVal(c) < base

RECURSIVE DigitsValue(_, _, _)
DigitsValue(ds, base, acc) ==
    IF ds = <<>> THEN acc
    ELSE IF Head(ds) = Ch_us THEN DigitsValue(Tail(ds), base, acc)
    ELSE DigitsValue(Tail(ds), base, acc * base + DigitVal(Head(ds)))

\* str.strip() as int() applies it
PyStrip(s) == class_rpartition(PyWhitespace, class_partition(PyWhitespace, s)[2])[1]

\* the digits of an int() argument: single underscores between digits only
PyIntDigits(b, base) ==
    IF /\ Len(b) > 0
       /\ \A i \in 1..Len(b) : b[i] = Ch_us \/ IsDigitOf(b[i], base)
       /\ b[1] # Ch_us /\ b[Len(b)] # Ch_us
       /\ ~Contains(b, <<Ch_us, Ch_us>>)
    THEN [ok |-> TRUE, val |-> DigitsValue(b, base, 0)]
    ELSE [ok |-> FALSE, val |-> 0]

\* the optional 0x / 0o / 0b prefix of the base, and one underscore after it
PyIntPrefix(u, base) ==
    LET pfx == CASE base = 16 -> {120, 88}
                 [] base = 8 -> {111, 79}
                 [] base = 2 -> {98, 66}
                 [] OTHER -> {}
    IN  IF Len(u) >= 2 /\ u[1] = Ch_0 /\ u[2] \in pfx
        THEN PyIntDigits(Slice(u, IF Len(u) >= 3 /\ u[3] = Ch_us THEN 3 ELSE 2, Len(u)), base)
        ELSE PyIntDigits(u, base)

PyNeg(r) == [r EXCEPT !.val = 0 - r.val]

PyIntSigned(t, base) ==
    IF Len(t) > 0 /\ t[1] = Ch_minus THEN PyNeg(PyIntPrefix(Tail(t), base))
    ELSE IF Len(t) > 0 /\ t[1] = Ch_plus THEN PyIntPrefix(Tail(t), base)
    ELSE PyIntPrefix(t, base)

\* int(s, base) of the Python standard library: [ok, val]; ok = FALSE is ValueError
PyInt(s, base) == PyIntSigned(PyStrip(s), base)

\* chr(iv) raises ValueError outside range(0x110000)
PyChrOk(iv) == iv >= 0 /\ iv <= 1114111

\* ------------------------------------------------------------ parse_string
escape_keys == {98, 116, 110, 102, 114, DQ, BSL}
escape_vals(ev) ==
    CASE ev = 98 -> 8
      [] ev = 116 -> TAB
      [] ev = 110 -> NL
      [] ev = 102 -> 12
      [] ev = 114 -> 13
      [] ev = DQ -> DQ
      [] ev = BSL -> BSL

control_chars == (0..8) \cup (11..31) \cup {DEL}

\* a, b = class_rpartition("\\", sv[:-len(delim)]); len(b) % 2 != 0
escaped_never(sv, delim) == FALSE

escaped(sv, delim) == Len(class_rpartition({BSL}, DropLast(sv, Len(delim)))[2]) % 2 # 0

\* one pass of the first while loop of parse_string after advance_until has
\* returned r; p and sv are the state the pass started in.  "Hang" is the loop
\* coming back to the state it started a pass in.
RECURSIVE parse_string_scan(_, _, _, _)
parse_string_backtrack(p, sv, p2, sv2, delim) ==
    IF at_end(p2)
    THEN Raise("TOMLDecodeError", "end of file after escaped delimiter", p2)
    ELSE IF p2 = p /\ sv2 = sv THEN Raise("Hang", "", p2)
    ELSE parse_string_scan(p2, sv2, delim, TRUE)

parse_string_found(p, sv, p1, sv1, delim, allow_escapes) ==
    IF at_end(p1) /\ ~endswith(sv1, delim)
    THEN Raise("TOMLDecodeError", "end of file inside string", p1)
    ELSE IF ~allow_escapes THEN Ok(sv1, p1)
    ELSE IF ~escaped(sv1, delim) THEN Ok(sv1, p1)
    ELSE IF Len(delim) - 1 > 0
    THEN parse_string_backtrack(p, sv, backtrack(p1, Len(delim) - 1),
                                DropLast(sv1, Len(delim) - 1), delim)
    ELSE parse_string_backtrack(p, sv, p1, sv1, delim)

parse_string_until(p, sv, r, delim, allow_escapes) ==
    parse_string_found(p, sv, r.p, sv \o r.d, delim, allow_escapes)

\* the search for the closing delimiter (the first while loop of parse_string)
parse_string_scan(p, sv, delim, allow_escapes) ==
    parse_string_until(p, sv, advance_until(p, delim), delim, allow_escapes)

\* the pattern \n alone, without the [ \t]* before it
ws_re_newline(sv, pos) == Len(sv) > pos /\ sv[pos + 1] = NL

\* ws_re.match(sv, pos): [ \t]*\n
ws_re_match(sv, pos) ==
    LET ab == class_partition({SPC, TAB}, Slice(sv, pos, Len(sv)))
    IN  Len(ab[2]) > 0 /\ ab[2][1] = NL

\* the checks on the value iv of a \u or \U escape
unicode_escape_value(iv, p) ==
    IF ~iv.ok THEN Raise("TOMLDecodeError", "bad hex escape", p)
    ELSE IF iv.val > 55296 /\ iv.val <= 57343
    THEN Raise("TOMLDecodeError", "non-scalar unicode escape", p)
    ELSE IF ~PyChrOk(iv.val) THEN Raise("TOMLDecodeError", "bad hex escape", p)
    ELSE Ok(<<iv.val>>, p)

\* one \u or \U escape with nhex digits at sv[bs]
unicode_escape(sv, bs, nhex, p) ==
    IF Len(Slice(sv, bs + 2, bs + 2 + nhex)) # nhex
    THEN Raise("TOMLDecodeError", "hexval cutoff", p)
    ELSE unicode_escape_value(PyInt(Slice(sv, bs + 2, bs + 2 + nhex), 16), p)

\* the substitution for the escape at sv[bs]: its result r and the index end
\* where the text after the escape sequence starts
escape_at(sv, bs, ev, whitespace_escape, p) ==
    IF ev \in escape_keys THEN [r |-> Ok(<<escape_vals(ev)>>, p), end |-> bs + 2]
    ELSE IF ev = Ch_u THEN [r |-> unicode_escape(sv, bs, 4, p), end |-> bs + 6]
    ELSE IF ev = Ch_U THEN [r |-> unicode_escape(sv, bs, 8, p), end |-> bs + 10]
    ELSE IF whitespace_escape /\ ws_re_match(sv, bs + 1)
    THEN [r |-> Ok(<<>>, p),
          end |-> bs + 2 + Len(class_partition({SPC, TAB, NL},
                                               Slice(sv, bs + 2, Len(sv)))[1])]
    ELSE [r |-> Raise("TOMLDecodeError", "not a valid escape", p), end |-> bs + 2]

\* the escape substitution (the second while loop of parse_string)
RECURSIVE parse_string_escapes(_, _, _, _, _)
parse_string_subst(sv, bs, sub, whitespace_escape, p) ==
    IF sub.r.st # "ok" THEN sub.r
    ELSE parse_string_escapes(Slice(sv, 0, bs) \o sub.r.val \o Slice(sv, sub.end, Len(sv)),
                              bs, sub.r.val, whitespace_escape, p)

parse_string_escape_at(sv, bs, whitespace_escape, p) ==
    IF bs = -1 THEN Ok(sv, p)
    ELSE IF bs + 1 >= Len(sv) THEN Raise("IndexError", "string index out of range", p)
    ELSE parse_string_subst(sv, bs, escape_at(sv, bs, sv[bs + 2], whitespace_escape, p),
                            whitespace_escape, p)

parse_string_escapes(sv, bs0, last_subst, whitespace_escape, p) ==
    parse_string_escape_at(sv, Find(sv, <<BSL>>, bs0 + Len(last_subst)), whitespace_escape, p)

\* the checks of parse_string on the scanned text sv0, delimiter removed
parse_string_value(sv0, p, allow_escapes, allow_newlines, whitespace_escape) ==
    IF Contains(sv0, <<NL>>) /\ ~allow_newlines
    THEN Raise("TOMLDecodeError", "newline in basic string", p)
    ELSE IF \E i \in 1..Len(sv0) : sv0[i] \in control_chars
    THEN Raise("TOMLDecodeError", "unescaped control character in string", p)
    ELSE IF allow_escapes
    THEN parse_string_escapes(IF allow_newlines /\ startswith(sv0, <<NL>>)
                              THEN Tail(sv0) ELSE sv0,
                              0, <<>>, whitespace_escape, p)
    ELSE Ok(IF allow_newlines /\ startswith(sv0, <<NL>>) THEN Tail(sv0) ELSE sv0, p)

parse_string_scanned(sc, delim, allow_escapes, allow_newlines, whitespace_escape) ==
    IF sc.st # "ok" THEN sc
    ELSE parse_string_value(DropLast(sc.val, Len(delim)), sc.p,
                            allow_escapes, allow_newlines, whitespace_escape)

parse_string(p, delim, allow_escapes, allow_newlines, whitespace_escape) ==
    IF ~at_string(p, delim)
    THEN Raise("TOMLDecodeError", "string doesn't begin with delimiter", p)
    ELSE parse_string_scanned(parse_string_scan(advance(p, Len(delim)).p, <<>>, delim,
                                                allow_escapes),
                              delim, allow_escapes, allow_newlines, whitespace_escape)

parse_dispatch_string(p, multiline_allowed) ==
    IF at_string(p, <<DQ, DQ, DQ>>)
    THEN IF ~multiline_allowed
         THEN Raise("TOMLDecodeError", "multiline string where not allowed", p)
         ELSE parse_string(p, <<DQ, DQ, DQ>>, TRUE, TRUE, TRUE)
    ELSE IF at_string(p, <<DQ>>)
    THEN parse_string(p, <<DQ>>, TRUE, FALSE, FALSE)
    ELSE IF at_string(p, <<SQ, SQ, SQ>>)
    THEN IF ~multiline_allowed
         THEN Raise("TOMLDecodeError", "multiline string where not allowed", p)
         ELSE parse_string(p, <<SQ, SQ, SQ>>, FALSE, TRUE, FALSE)
    ELSE IF at_string(p, <<SQ>>)
    THEN parse_string(p, <<SQ>>, FALSE, FALSE, FALSE)
    ELSE Raise("UnboundLocalError", "val", p)

\* characters allowed in unquoted keys
key_chars == (65..90) \cup (97..122) \cup (48..57) \cup {Ch_minus, Ch_us}

parse_key(p) ==
    LET ic == get(p, 1)
    IN  IF ic \in {<<DQ>>, <<SQ>>} THEN parse_dispatch_string(p, FALSE)
        ELSE IF ic # <<>> /\ ic[1] \in key_chars
        THEN LET r == advance_through_class(p, key_chars) IN Ok(r.d, r.p)
        ELSE Raise("TOMLDecodeError", "cannot begin key", p)

\* ---------------------------------------------- TOMLEncoder: strings, keys
\* results of the encoder: [st, out], out the text produced
EOk(out) == [st |-> "ok", out |-> out]
ERaise(kind) == [st |-> kind, out |-> <<>>]

\* spec-defined string escapes
escapes_keys == {8, TAB, NL, 12, 13, DQ, BSL}
escapes(i) ==
    CASE i = 8 -> <<BSL, 98>>
      [] i = TAB -> <<BSL, 116>>
      [] i = NL -> <<BSL, 110>>
      [] i = 12 -> <<BSL, 102>>
      [] i = 13 -> <<BSL, 114>>
      [] i = DQ -> <<BSL, DQ>>
      [] i = BSL -> <<BSL, BSL>>

HexDigitChar(d) == IF d < 10 THEN 48 + d ELSE 87 + d

\* "{:04x}".format(n)
RECURSIVE HexDigits(_)
HexDigits(n) == IF n < 16 THEN <<HexDigitChar(n)>>
                ELSE HexDigits(n \div 16) \o <<HexDigitChar(n % 16)>>

Format04x(n) ==
    LET h == HexDigits(n)
    IN  [i \in 1..Max(4 - Len(h), 0) |-> Ch_0] \o h

RECURSIVE dump_bstr_body(_, _, _)
dump_bstr_body(s, n, multiline) ==
    IF n >= Len(s) THEN <<>>
    ELSE LET i == s[n + 1]
             o == IF i < 32 \/ i \in {BSL, DQ}
                  THEN IF i = NL /\ multiline /\ n # 0 THEN <<i>>
                       ELSE IF i \in escapes_keys THEN escapes(i)
                       ELSE <<BSL, Ch_u>> \o Format04x(i)
                  ELSE <<i>>
         IN  o \o dump_bstr_body(s, n + 1, multiline)

dump_bstr(s, multiline) ==
    LET delim == IF multiline THEN <<DQ, DQ, DQ>> ELSE <<DQ>>
    IN  EOk(delim \o dump_bstr_body(s, 0, multiline) \o delim)

dump_rawstr(s, multiline) ==
    LET delim == IF multiline THEN <<SQ, SQ, SQ>> ELSE <<SQ>>
    IN  IF Contains(s, delim) THEN ERaise("TOMLEncodeError")
        ELSE EOk(delim \o s \o delim)

\* the literal form whatever the string holds
dump_str_raw(s, multiline_allowed) ==
    dump_rawstr(s, Contains(Slice(s, 1, Len(s)), <<NL>>))

dump_str(s, multiline_allowed) ==
    LET multiline == Contains(Slice(s, 1, Len(s)), <<NL>>)
    IN  IF \/ (Contains(s, <<SQ>>) /\ ~multiline)
           \/ Contains(s, <<SQ, SQ, SQ>>)
           \/ \E i \in 1..Len(s) : s[i] < 32 /\ s[i] # NL
           \/ (multiline /\ ~multiline_allowed)
           \/ startswith(s, <<NL>>)
           \/ endswith(s, <<SQ>>)
        THEN dump_bstr(s, multiline /\ multiline_allowed)
        ELSE dump_rawstr(s, multiline)

\* a str key is a sequence of code points; a key of another type (an int, say)
\* is the sequence <<-1>>, on which len() raises TypeError
IsStrKey(k) == \A i \in 1..Len(k) : k[i] >= 0

dump_key(k) ==
    IF ~IsStrKey(k) THEN ERaise("TypeError")
    ELSE IF Len(k) > 0 /\ \A i \in 1..Len(k) : k[i] \in key_chars THEN EOk(k)
    ELSE dump_str(k, FALSE)

\* ------------------------------------------------------------ value trees
VStr(s)  == [tag |-> "str", val |-> s]
VInt(n)  == [tag |-> "int", val |-> n]
VBool(b) == [tag |-> "bool", val |-> b]
VDate(y, m, d) == [tag |-> "date", val |-> <<y, m, d>>]
VList(es) == [tag |-> "list", val |-> es]
VDict(items) == [tag |-> "dict", val |-> items]
Item(k, v) == [k |-> k, v |-> v]
EmptyDict == VDict(<<>>)

\* position of key k among the items of dict d, 0 when absent (k in d)
KeyIndex(d, k) ==
    LET hits == {j \in 1..Len(d.val) : d.val[j].k = k}
    IN  IF hits = {} THEN 0 ELSE CHOOSE j \in hits : \A h \in hits : j <= h

HasKey(d, k) == KeyIndex(d, k) # 0

\* list(d.keys())
KeysOf(d) == [j \in 1..Len(d.val) |-> d.val[j].k]

\* d[k]
DictGet(d, k) == d.val[KeyIndex(d, k)].v

\* d[k] = v: an existing key keeps its place and is rebound, a new key is added last
DictPut(d, k, v) ==
    IF HasKey(d, k) THEN [d EXCEPT !.val[KeyIndex(d, k)].v = v]
    ELSE [d EXCEPT !.val = Append(d.val, Item(k, v))]

(***************************************************************************)
(* Object identity.  The decoder builds a tree without sharing and never   *)
(* unbinds a key or removes an array element, so id(x) of a container x    *)
(* bound in the tree is modelled by the location of x: the steps from the  *)
(* root, each [k, i] with i = 0 for the value bound to key k and i >= 1    *)
(* for element i (from 1) of the list bound to k.                          *)
(***************************************************************************)
Step(k, i) == [k |-> k, i |-> i]

RECURSIVE GetAt(_, _)
GetAt(tree, loc) ==
    IF loc = <<>> THEN tree
    ELSE LET s == Head(loc)
             v == DictGet(tree, s.k)
         IN  GetAt(IF s.i = 0 THEN v ELSE v.val[s.i], Tail(loc))

RECURSIVE SetAt(_, _, _)
SetAt(tree, loc, new) ==
    IF loc = <<>> THEN new
    ELSE LET s == Head(loc)
             j == KeyIndex(tree, s.k)
             v == tree.val[j].v
         IN  IF s.i = 0
             THEN [tree EXCEPT !.val[j].v = SetAt(v, Tail(loc), new)]
             ELSE [tree EXCEPT !.val[j].v.val[s.i] = SetAt(v.val[s.i], Tail(loc), new)]

\* ----------------------------------------------------------------- proc_kl
\* result of proc_kl: the tree as proc_kl left it and the location of the target
KOk(root, loc) == [st |-> "ok", msg |-> "", root |-> root, loc |-> loc]
KRaise(kind, msg, root, loc) == [st |-> kind, msg |-> msg, root |-> root, loc |-> loc]

(***************************************************************************)
(* proc_kl(rv, kl, tarray, p, toplevel_arrays) where the argument rv is    *)
(* the container at location c of the tree root.  When c is not a dict (it *)
(* was reached as the last element c[i][-1] of a list), the expressions    *)
(* `i in c`, `c[i]` and `c[i] = {}` with a str i raise TypeError whatever  *)
(* c holds: `in` raises on an int, bool or date, and on a str or list the  *)
(* subscript or the assignment raises.                                     *)
(***************************************************************************)
RECURSIVE proc_kl_walk(_, _, _, _, _)
proc_kl_walk(root, c, kl, n, toplevel_arrays) ==
    IF n >= Len(kl) THEN KOk(root, c)
    ELSE
    LET i  == kl[n]
        cv == GetAt(root, c)
        present == HasKey(cv, i)
        root1 == IF present THEN root ELSE SetAt(root, c, DictPut(cv, i, EmptyDict))
        ci == DictGet(GetAt(root1, c), i)
    IN  IF cv.tag # "dict" THEN KRaise("TypeError", "", root, c)
        ELSE IF present /\ DictGet(cv, i).tag \notin {"dict", "list"}
        THEN KRaise("TOMLDecodeError", "repeated key in keylist", root, c)
        ELSE IF ci.tag = "list" /\ Append(c, Step(i, 0)) \in toplevel_arrays
        THEN KRaise("TOMLDecodeError", "appended to statically defined array", root1, c)
        ELSE IF ci.tag = "dict"
        THEN proc_kl_walk(root1, Append(c, Step(i, 0)), kl, n + 1, toplevel_arrays)
        ELSE IF Len(ci.val) = 0 THEN KRaise("IndexError", "", root1, c)
        ELSE proc_kl_walk(root1, Append(c, Step(i, Len(ci.val))), kl, n + 1, toplevel_arrays)

\* the last key without the test `type(c[fk]) != dict` of the [p] branch
proc_kl_last_untyped(root, c, fk, tarray, toplevel_arrays) ==
    LET cv == GetAt(root, c)
        present == HasKey(cv, fk)
        fresh == IF tarray THEN VList(<<>>) ELSE EmptyDict
        root1 == IF present THEN root ELSE SetAt(root, c, DictPut(cv, fk, fresh))
        at == Append(c, Step(fk, 0))
        arr == GetAt(root1, at)
    IN  IF cv.tag # "dict" THEN KRaise("TypeError", "", root, c)
        ELSE IF tarray
        THEN IF present /\ DictGet(cv, fk).tag # "list"
             THEN KRaise("TOMLDecodeError", "repeated key in keylist", root, c)
             ELSE IF at \in toplevel_arrays
             THEN KRaise("TOMLDecodeError", "appended to statically defined array", root1, c)
             ELSE KOk(SetAt(root1, at, VList(Append(arr.val, EmptyDict))),
                      Append(c, Step(fk, Len(arr.val) + 1)))
        ELSE KOk(root1, at)

proc_kl_last(root, c, fk, tarray, toplevel_arrays) ==
    LET cv == GetAt(root, c)
        present == HasKey(cv, fk)
        fresh == IF tarray THEN VList(<<>>) ELSE EmptyDict
        root1 == IF present THEN root ELSE SetAt(root, c, DictPut(cv, fk, fresh))
        at == Append(c, Step(fk, 0))
        arr == GetAt(root1, at)
    IN  IF cv.tag # "dict" THEN KRaise("TypeError", "", root, c)
        ELSE IF tarray
        THEN IF present /\ DictGet(cv, fk).tag # "list"
             THEN KRaise("TOMLDecodeError", "repeated key in keylist", root, c)
             ELSE IF at \in toplevel_arrays
             THEN KRaise("TOMLDecodeError", "appended to statically defined array", root1, c)
             ELSE KOk(SetAt(root1, at, VList(Append(arr.val, EmptyDict))),
                      Append(c, Step(fk, Len(arr.val) + 1)))
        ELSE IF present /\ DictGet(cv, fk).tag # "dict"
             THEN KRaise("TOMLDecodeError", "repeated key in keylist", root, c)
             ELSE KOk(root1, at)

proc_kl_walked(w, fk, tarray, toplevel_arrays) ==
    IF w.st # "ok" THEN w
    ELSE proc_kl_last(w.root, w.loc, fk, tarray, toplevel_arrays)

proc_kl(root, c, kl, tarray, toplevel_arrays) ==
    IF Len(kl) = 0 THEN KOk(root, c)
    ELSE proc_kl_walked(proc_kl_walk(root, c, kl, 1, toplevel_arrays),
                        kl[Len(kl)], tarray, toplevel_arrays)

\* ---------------------------------------------------------------- tokens
(***************************************************************************)
(* The document is modelled after the split into statements and values,    *)
(* which parse_tablespec, parse_keylist, parse_pair, parse_array and       *)
(* parse_inline_table do on the delimiters [ ] { } . , = : a key and a     *)
(* scalar value are kept as their source text and parsed character by      *)
(* character, an array is the sequence of its element literals, an inline  *)
(* table the sequence of its (key list, literal) entries.  A statement is  *)
(* [kind, kl, v]: kind "table" for [kl], "tarray" for [[kl]], "pair" for   *)
(* kl = v, and "nl" for one newline between statements.                    *)
(***************************************************************************)
Text(s) == [tag |-> "text", val |-> s]
ArrayLit(es) == [tag |-> "array", val |-> es]
InlineLit(entries) == [tag |-> "itable", val |-> entries]
Entry(kl, v) == [kl |-> kl, v |-> v]
NoLit == [tag |-> "none", val |-> <<>>]
Stmt(kind, kl, v) == [kind |-> kind, kl |-> kl, v |-> v]
NLTok == Stmt("nl", <<>>, NoLit)

\* result of parsing a token: the value (or the key list) or the exception
VOk(val) == [st |-> "ok", msg |-> "", val |-> val]
VRaise(kind, msg) == [st |-> kind, msg |-> msg, val |-> <<>>]

(***************************************************************************)
(* Text left over after a key or a scalar.  Such text is not a separator   *)
(* (tokens hold no white space, comment, comma or bracket outside string   *)
(* quotes), so the caller's next test raises TOMLDecodeError: "no =",      *)
(* "Bad char" in a header, "bad next char" in an array or inline table,    *)
(* "Didn't find expected newline" after a pair.                            *)
(***************************************************************************)
WholeToken(r) ==
    IF r.st # "ok" THEN VRaise(r.st, r.msg)
    ELSE IF ~at_end(r.p) THEN VRaise("TOMLDecodeError", "unexpected character after token")
    ELSE VOk(r.val)

\* ------------------------------------------------------------- parse_int
IsDigit(c) == c >= 48 /\ c <= 57
IntReClass == {c \in 48..102 : IsDigit(c) \/ (c >= 97 /\ c <= 102) \/ (c >= 65 /\ c <= 70)} \cup {Ch_us}
\* the lookahead (?=[\s,\]}]|$)
TokenEnd(s, i) == i >= Len(s) \/ s[i + 1] \in PyWhitespace \cup {44, 93, 125}

\* int_re.match(s, pos): the length matched, -1 for no match
int_re_match(s, pos) ==
    LET rest == Slice(s, pos, Len(s))
        run1 == class_partition(IntReClass, Slice(rest, 2, Len(rest)))[1]
        alt1 == /\ Len(rest) >= 3 /\ rest[1] = Ch_0 /\ rest[2] \in {120, 111, 98}
                /\ Len(run1) >= 1 /\ TokenEnd(s, pos + 2 + Len(run1))
        sg == IF Len(rest) > 0 /\ rest[1] \in {Ch_plus, Ch_minus} THEN 1 ELSE 0
        body == Slice(rest, sg, Len(rest))
        one == Len(body) >= 1 /\ IsDigit(body[1]) /\ TokenEnd(s, pos + sg + 1)
        run2 == class_partition((48..57) \cup {Ch_us}, Tail(body))[1]
        many == /\ Len(body) >= 2 /\ body[1] \in 49..57
                /\ Len(run2) >= 1 /\ IsDigit(run2[Len(run2)])
                /\ TokenEnd(s, pos + sg + 1 + Len(run2))
    IN  IF alt1 THEN 2 + Len(run1)
        ELSE IF one THEN sg + 1
        ELSE IF many THEN sg + 1 + Len(run2)
        ELSE -1

RemoveAll(s, c) == LET F[i \in 0..Len(s)] ==
                           IF i = 0 THEN <<>>
                           ELSE IF s[i] = c THEN F[i - 1] ELSE Append(F[i - 1], s[i])
                   IN  F[Len(s)]

\* the base named by the prefix of the matched text
int_base(sv) ==
    IF startswith(sv, <<Ch_0, 120>>) THEN 16
    ELSE IF startswith(sv, <<Ch_0, 98>>) THEN 2
    ELSE IF startswith(sv, <<Ch_0, 111>>) THEN 8
    ELSE 10

parse_int_convert(rv, p1) ==
    IF ~rv.ok THEN Raise("TOMLDecodeError", "invalid base integer", p1)
    ELSE Ok(VInt(rv.val), p1)

parse_int_base(sv, base, p1) ==
    parse_int_convert(PyInt(IF base = 10 THEN sv ELSE Slice(sv, 2, Len(sv)), base), p1)

\* parse_int once int_re has matched the text mv and p has advanced to p1
parse_int_matched(mv, p1) ==
    IF \/ Contains(mv, <<Ch_us, Ch_us>>)
       \/ (Len(mv) >= 3 /\ mv[1] = Ch_0 /\ mv[2] \in {120, 111, 98} /\ mv[3] = Ch_us)
       \/ endswith(mv, <<Ch_us>>)
    THEN Raise("TOMLDecodeError", "invalid underscores in int", p1)
    ELSE parse_int_base(RemoveAll(mv, Ch_us), int_base(RemoveAll(mv, Ch_us)), p1)

parse_int_at(p, n) ==
    IF n = -1 THEN Raise("TOMLDecodeError", "tried to parse_int non-int", p)
    ELSE parse_int_matched(Slice(p.string, p.index, p.index + n), advance(p, n).p)

parse_int(p) == parse_int_at(p, int_re_match(p.string, p.index))

\* -------------------------------------------------------- parse_datetime
\* date_re.match(s, pos): \d{4}-\d\d-\d\d
date_re_match(s, pos) ==
    LET d == Slice(s, pos, pos + 10)
    IN  /\ Len(d) = 10
        /\ \A i \in {1, 2, 3, 4, 6, 7, 9, 10} : IsDigit(d[i])
        /\ d[5] = Ch_minus /\ d[8] = Ch_minus

DaysInMonth(y, m) ==
    IF m = 2 THEN (IF (y % 4 = 0 /\ y % 100 # 0) \/ y % 400 = 0 THEN 29 ELSE 28)
    ELSE IF m \in {4, 6, 9, 11} THEN 30 ELSE 31

\* datetime.date(year, month, day) raises ValueError on a field out of range
date(year, month, day) ==
    IF year < 1 \/ month < 1 \/ month > 12 \/ day < 1 \/ day > DaysInMonth(year, month)
    THEN VRaise("ValueError", "")
    ELSE VOk(VDate(year, month, day))

date_from_string(s, pos) ==
    date(PyInt(Slice(s, pos, pos + 4), 10).val,
         PyInt(Slice(s, pos + 5, pos + 7), 10).val,
         PyInt(Slice(s, pos + 8, pos + 10), 10).val)

\* the tokens of this model hold no ':', so of datetime_re, time_re and date_re
\* only date_re can match
is_date_or_time(p) == date_re_match(p.string, p.index)

parse_datetime_value(d, p1) ==
    IF d.st # "ok" THEN Raise(d.st, d.msg, p1) ELSE Ok(d.val, p1)

parse_datetime(p) ==
    IF ~date_re_match(p.string, p.index)
    THEN Raise("TOMLDecodeError", "failed to parse datetime", p)
    ELSE parse_datetime_value(date_from_string(p.string, p.index), advance(p, 10).p)

\* ------------------------------------------------------------ parse_value
TrueText == <<116, 114, 117, 101>>
FalseText == <<102, 97, 108, 115, 101>>

\* a str result as a value of the tree
StrValue(r) == [r EXCEPT !.val = VStr(r.val)]

\* the scalar branches of parse_value, on a token's text
parse_scalar_at(p) ==
    IF get(p, 1) \in {<<SQ>>, <<DQ>>}
    THEN WholeToken(StrValue(parse_dispatch_string(p, TRUE)))
    ELSE IF at_string(p, TrueText)
    THEN WholeToken(Ok(VBool(TRUE), advance(p, 4).p))
    ELSE IF at_string(p, FalseText)
    THEN WholeToken(Ok(VBool(FALSE), advance(p, 5).p))
    ELSE IF int_re_match(p.string, p.index) # -1
    THEN WholeToken(parse_int(p))
    ELSE IF is_date_or_time(p)
    THEN WholeToken(parse_datetime(p))
    ELSE VRaise("TOMLDecodeError", "can't parse type")

parse_scalar(s) == parse_scalar_at(ParseState(s))

\* the key k parsed first, then the keys tl after the dot
parse_keylist_cons(k, tl) ==
    IF k.st # "ok" THEN k
    ELSE IF tl.st # "ok" THEN tl
    ELSE VOk(<<k.val>> \o tl.val)

\* parse_keylist on the texts of the dotted segments
RECURSIVE parse_keylist(_)
parse_keylist(ktexts) ==
    IF ktexts = <<>> THEN VOk(<<>>)
    ELSE parse_keylist_cons(WholeToken(parse_key(ParseState(Head(ktexts)))),
                            parse_keylist(Tail(ktexts)))

Front(s) == SubSeq(s, 1, Len(s) - 1)
Last(s) == s[Len(s)]

RECURSIVE parse_value(_)
RECURSIVE parse_array_from(_, _)
RECURSIVE parse_inline_from(_, _)

\* rv.append(v) and on to the next element
parse_array_append(v, lits, rv) ==
    IF v.st # "ok" THEN v
    ELSE parse_array_from(lits, Append(rv, v.val))

\* parse_array: the elements in order; no test relates one element to another
parse_array_from(lits, rv) ==
    IF lits = <<>> THEN VOk(VList(rv))
    ELSE parse_array_append(parse_value(Head(lits)), Tail(lits), rv)

\* `if k in target: raise ...; target[k] = v` on the target proc_kl returned
parse_inline_bind(t, k, v, entries) ==
    IF t.st # "ok" THEN VRaise(t.st, t.msg)
    ELSE IF HasKey(GetAt(t.root, t.loc), k)
    THEN VRaise("TOMLDecodeError", "duplicated key in inline")
    ELSE parse_inline_from(entries, SetAt(t.root, t.loc, DictPut(GetAt(t.root, t.loc), k, v)))

parse_inline_entry(kl, v, entries, rv) ==
    IF kl.st # "ok" THEN kl
    ELSE IF v.st # "ok" THEN v
    ELSE parse_inline_bind(proc_kl(rv, <<>>, Front(kl.val), FALSE, {}),
                           Last(kl.val), v.val, entries)

\* parse_inline_table: each entry goes through proc_kl on the table being built
parse_inline_from(entries, rv) ==
    IF entries = <<>> THEN VOk(rv)
    ELSE parse_inline_entry(parse_keylist(Head(entries).kl), parse_value(Head(entries).v),
                            Tail(entries), rv)

parse_array(lit) == parse_array_from(lit.val, <<>>)

parse_inline_table(lit) == parse_inline_from(lit.val, EmptyDict)

parse_value(lit) ==
    IF lit.tag = "array" THEN parse_array(lit)
    ELSE IF lit.tag = "itable" THEN parse_inline_table(lit)
    ELSE parse_scalar(lit.val)

\* ------------------------------------------------------------------ loads
\* the local variables of loads; bound is where the last pair bound its value
loads_init ==
    [rv |-> EmptyDict, cur_target |-> <<>>, toplevel_targets |-> {},
     toplevel_arrays |-> {}, first |-> TRUE, line |-> 1,
     status |-> "running", msg |-> "", bound |-> <<>>]

\* an exception leaves loads; rv is the tree as the failed statement left it
loads_raise(s, kind, msg, rv) == [s EXCEPT !.status = kind, !.msg = msg, !.rv = rv]

RECURSIVE LitNewlines(_)
LitNewlines(lit) ==
    IF lit.tag = "text" THEN Count(lit.val, NL)
    ELSE IF lit.tag = "array"
    THEN LET F[i \in 0..Len(lit.val)] ==
                 IF i = 0 THEN 0 ELSE F[i - 1] + LitNewlines(lit.val[i])
         IN  F[Len(lit.val)]
    ELSE IF lit.tag = "itable"
    THEN LET F[i \in 0..Len(lit.val)] ==
                 IF i = 0 THEN 0 ELSE F[i - 1] + LitNewlines(lit.val[i].v)
         IN  F[Len(lit.val)]
    ELSE 0

\* the header branch without the test `id(cur_target) in toplevel_targets`
loads_table_unchecked(s, t) ==
    IF t.st # "ok" THEN loads_raise(s, t.st, t.msg, t.root)
    ELSE [s EXCEPT !.rv = t.root, !.cur_target = t.loc,
                   !.toplevel_targets = @ \cup {t.loc}]

\* the header branch without the assignment to cur_target
loads_table_untargeted(s, t) ==
    IF t.st # "ok" THEN loads_raise(s, t.st, t.msg, t.root)
    ELSE IF t.loc \in s.toplevel_targets
    THEN loads_raise(s, "TOMLDecodeError", "duplicated table", t.root)
    ELSE [s EXCEPT !.rv = t.root, !.toplevel_targets = @ \cup {t.loc}]

\* `if id(cur_target) in toplevel_targets: raise ...; toplevel_targets.add(...)`
loads_table(s, t) ==
    IF t.st # "ok" THEN loads_raise(s, t.st, t.msg, t.root)
    ELSE IF t.loc \in s.toplevel_targets
    THEN loads_raise(s, "TOMLDecodeError", "duplicated table", t.root)
    ELSE [s EXCEPT !.rv = t.root, !.cur_target = t.loc,
                   !.toplevel_targets = @ \cup {t.loc}]

loads_tablespec(s, kl, tarray) ==
    IF kl.st # "ok" THEN loads_raise(s, kl.st, kl.msg, s.rv)
    ELSE loads_table(s, proc_kl(s.rv, <<>>, kl.val, tarray, s.toplevel_arrays))

\* the branch `if p.at_string('[')` of the loop of loads
loads_header(s, stmt) ==
    loads_tablespec(s, parse_keylist(stmt.kl), stmt.kind = "tarray")

\* the insertion without the test `if k in target`
loads_bind_unchecked(s, t, k, v) ==
    IF t.st # "ok" THEN loads_raise(s, t.st, t.msg, t.root)
    ELSE [s EXCEPT !.rv = SetAt(t.root, t.loc, DictPut(GetAt(t.root, t.loc), k, v)),
                   !.toplevel_arrays = IF v.tag = "list"
                                       THEN @ \cup {Append(t.loc, Step(k, 0))} ELSE @,
                   !.bound = Append(t.loc, Step(k, 0))]

\* the insertion as `target.clear(); target[k] = v`
loads_bind_alone(s, t, k, v) ==
    IF t.st # "ok" THEN loads_raise(s, t.st, t.msg, t.root)
    ELSE IF HasKey(GetAt(t.root, t.loc), k)
    THEN loads_raise(s, "TOMLDecodeError", "Key is repeated", t.root)
    ELSE [s EXCEPT !.rv = SetAt(t.root, t.loc, VDict(<<Item(k, v)>>)),
                   !.toplevel_arrays = IF v.tag = "list"
                                       THEN @ \cup {Append(t.loc, Step(k, 0))} ELSE @,
                   !.bound = Append(t.loc, Step(k, 0))]

\* `if k in target: raise ...; target[k] = v` on the target proc_kl returned; a
\* list v has entered toplevel_arrays, at the place the pair binds it
loads_bind(s, t, k, v) ==
    IF t.st # "ok" THEN loads_raise(s, t.st, t.msg, t.root)
    ELSE IF HasKey(GetAt(t.root, t.loc), k)
    THEN loads_raise(s, "TOMLDecodeError", "Key is repeated", t.root)
    ELSE [s EXCEPT !.rv = SetAt(t.root, t.loc, DictPut(GetAt(t.root, t.loc), k, v)),
                   !.toplevel_arrays = IF v.tag = "list"
                                       THEN @ \cup {Append(t.loc, Step(k, 0))} ELSE @,
                   !.bound = Append(t.loc, Step(k, 0))]

\* nls is the count of newlines inside the value, which p has passed
loads_parsed(s, kl, v, nls) ==
    IF kl.st # "ok" THEN loads_raise(s, kl.st, kl.msg, s.rv)
    ELSE IF v.st # "ok" THEN loads_raise(s, v.st, v.msg, s.rv)
    ELSE loads_bind([s EXCEPT !.line = @ + nls],
                    proc_kl(s.rv, s.cur_target, Front(kl.val), FALSE, {}),
                    Last(kl.val), v.val)

\* the else branch: parse_pair, then the insertion under cur_target.  The line
\* of an exception raised inside a value is not modelled.
loads_pair(s, stmt) ==
    loads_parsed(s, parse_keylist(stmt.kl), parse_value(stmt.v), LitNewlines(stmt.v))

\* the state at the head of an iteration that skipped nl newlines
loads_skip(s, nl) == [s EXCEPT !.line = @ + nl, !.first = FALSE, !.bound = <<>>]

\* the iteration without the test `if n == 0: raise ...`
loads_step_unseparated(s, nl, stmt) ==
    IF stmt.kind = "pair" THEN loads_pair(loads_skip(s, nl), stmt)
    ELSE loads_header(loads_skip(s, nl), stmt)

\* one iteration of the while loop of loads: nl newlines were skipped by
\* parse_throwaway since the previous statement
loads_step(s, nl, stmt) ==
    IF ~s.first /\ nl = 0
    THEN loads_raise(loads_skip(s, nl), "TOMLDecodeError", "Didn't find expected newline", s.rv)
    ELSE IF stmt.kind = "pair" THEN loads_pair(loads_skip(s, nl), stmt)
    ELSE loads_header(loads_skip(s, nl), stmt)

\* ------------------------------------------------ TOMLEncoder: value trees
(***************************************************************************)
(* The values handed to dumps add to the decoder's value trees: None, a    *)
(* tuple, a value "func" of a type no encoder handles (a function), and a  *)
(* value "path" of a foreign type that the default() of a subclass maps to *)
(* a str.  float, datetime and time values are not modelled.               *)
(***************************************************************************)
VNone == [tag |-> "none", val |-> <<>>]
VFunc == [tag |-> "func", val |-> <<>>]
VPath(s) == [tag |-> "path", val |-> s]
VTuple(es) == [tag |-> "tuple", val |-> es]

\* the encoder object: encode_none is VNone when no substitute is set; hook
\* tells a subclass whose default() maps a path to its text (tests/test_default.py)
TOMLEncoder(encode_none) == [encode_none |-> encode_none, hook |-> FALSE]
PathEncoder(encode_none) == [encode_none |-> encode_none, hook |-> TRUE]

\* tuple(self.st.keys())
st_keys == {"str", "bool", "int", "date"}

BOk(b) == [st |-> "ok", val |-> b]
BRaise(kind) == [st |-> kind, val |-> FALSE]

_is_encodable_type(self, v) ==
    \/ v.tag \in st_keys
    \/ v.tag \in {"list", "tuple", "dict"}
    \/ /\ v.tag = "none"
       /\ self.encode_none.tag \in st_keys \cup {"list", "tuple", "dict"}

default(self, val) ==
    IF self.hook /\ val.tag = "path" THEN VOk(VStr(val.val))
    ELSE VRaise("TypeError", "")

_get_encodable_object(self, obj) ==
    IF default(self, obj).st # "ok"
    THEN IF _is_encodable_type(self, obj) THEN VOk(obj)
         ELSE VRaise("TOMLEncodeError", "object of non-encodable type")
    ELSE IF ~_is_encodable_type(self, default(self, obj).val)
    THEN VRaise("TOMLEncodeError", "self.default() returned non-encodable object")
    ELSE VOk(default(self, obj).val)

RECURSIVE is_scalar(_, _, _)
RECURSIVE any_is_scalar(_, _, _, _)

\* any(...) goes on to the next element only after a False
any_is_scalar_next(r, self, vs, n, can_tarray) ==
    IF r.st # "ok" \/ r.val THEN r
    ELSE any_is_scalar(self, vs, n + 1, can_tarray)

\* any(self.is_scalar(i, can_tarray) for i in vs), from element n on
any_is_scalar(self, vs, n, can_tarray) ==
    IF n > Len(vs) THEN BOk(FALSE)
    ELSE any_is_scalar_next(is_scalar(self, vs[n], can_tarray), self, vs, n, can_tarray)

\* is_scalar on a non-empty list or tuple v, anys the result of any(...)
is_scalar_seq(anys, v, can_tarray) ==
    IF anys.st # "ok" \/ anys.val THEN anys
    ELSE BOk((\E i \in 1..Len(v.val) : v.val[i].tag = "dict") /\ ~can_tarray)

is_scalar(self, v, can_tarray) ==
    IF v.tag \in st_keys THEN BOk(TRUE)
    ELSE IF v.tag \in {"list", "tuple"}
    THEN IF Len(v.val) = 0 THEN BOk(TRUE)
         ELSE is_scalar_seq(any_is_scalar(self, v.val, 1, FALSE), v, can_tarray)
    ELSE IF v.tag = "none"
    THEN IF self.encode_none.tag = "none" THEN BRaise("TOMLEncodeError") ELSE BOk(TRUE)
    ELSE BOk(FALSE)

\* ------------------------------------------------- TOMLEncoder: dump_value
\* str(n) for n >= 0
RECURSIVE Digits(_)
Digits(n) == IF n < 10 THEN <<48 + n>> ELSE Digits(n \div 10) \o <<48 + (n % 10)>>

ZeroPad(s, w) == [i \in 1..Max(w - Len(s), 0) |-> Ch_0] \o s

dump_bool(b) == EOk(IF b THEN TrueText ELSE FalseText)

dump_int(i) == EOk(IF i < 0 THEN <<Ch_minus>> \o Digits(0 - i) ELSE Digits(i))

\* date.isoformat()
dump_date(d) ==
    EOk(ZeroPad(Digits(d[1]), 4) \o <<Ch_minus>> \o ZeroPad(Digits(d[2]), 2)
        \o <<Ch_minus>> \o ZeroPad(Digits(d[3]), 2))

\* f(v) for the f that _st_lookup finds: bool is looked up before int
st_dump(v) ==
    IF v.tag = "str" THEN dump_str(v.val, TRUE)
    ELSE IF v.tag = "bool" THEN dump_bool(v.val)
    ELSE IF v.tag = "int" THEN dump_int(v.val)
    ELSE dump_date(v.val)

\* the text r as a value literal of the document
TextLit(r) == IF r.st # "ok" THEN r ELSE EOk(Text(r.out))

RECURSIVE dump_value(_, _)
RECURSIVE dump_array_from(_, _, _)
RECURSIVE dump_itable_from(_, _, _)

dump_array_add(r, self, a, rv) ==
    IF r.st # "ok" THEN r
    ELSE dump_array_from(self, a, Append(rv, r.out))

\* the loop of dump_array: "[e1, e2]" is the array literal of e1, e2
dump_array_from(self, a, rv) ==
    IF a = <<>> THEN EOk(ArrayLit(rv))
    ELSE dump_array_add(dump_value(self, Head(a)), self, Tail(a), rv)

dump_array(self, a) == dump_array_from(self, a.val, <<>>)

dump_itable_add(k, v, self, items, rv) ==
    IF k.st # "ok" THEN k
    ELSE IF v.st # "ok" THEN v
    ELSE dump_itable_from(self, items, Append(rv, Entry(<<k.out>>, v.out)))

\* the loop of dump_itable: "{ k1 = v1, k2 = v2 }"
dump_itable_from(self, items, rv) ==
    IF items = <<>> THEN EOk(InlineLit(rv))
    ELSE dump_itable_add(dump_key(Head(items).k), dump_value(self, Head(items).v),
                         self, Tail(items), rv)

dump_itable(self, t) == dump_itable_from(self, t.val, <<>>)

dump_value(self, v) ==
    IF v.tag \in st_keys THEN TextLit(st_dump(v))
    ELSE IF v.tag \in {"list", "tuple"} THEN dump_array(self, v)
    ELSE IF v.tag = "dict" THEN dump_itable(self, v)
    ELSE IF v.tag = "none" /\ self.encode_none.tag # "none"
    THEN dump_value(self, self.encode_none)
    ELSE ERaise("TypeError")

\* ---------------------------------------------- TOMLEncoder: dump_sections
(***************************************************************************)
(* The text dump_sections returns is modelled as the sequence of its       *)
(* tokens: a header or a pair (the statement without its newline) and      *)
(* NLTok for each "\n" written.                                            *)
(***************************************************************************)
RECURSIVE dump_sections(_, _, _, _)

\* [ (k, self._get_encodable_object(v)) for k, v in obj.items() ]
RECURSIVE encodable_pairs(_, _, _)
encodable_pairs_add(o, self, items, acc) ==
    IF o.st # "ok" THEN o
    ELSE encodable_pairs(self, Tail(items), Append(acc, Item(Head(items).k, o.val)))

encodable_pairs(self, items, acc) ==
    IF items = <<>> THEN VOk(acc)
    ELSE encodable_pairs_add(_get_encodable_object(self, Head(items).v), self, items, acc)

\* [v for k, v in encodable_pairs]
vlist(pairs) == [n \in 1..Len(pairs) |-> pairs[n].v]

\* '.'.join(self.dump_key(i) for i in obj_name): the texts of the keys
RECURSIVE dump_keys(_)
dump_keys_cons(k, tl) ==
    IF k.st # "ok" THEN k
    ELSE IF tl.st # "ok" THEN tl
    ELSE EOk(<<k.out>> \o tl.out)

dump_keys(obj_name) ==
    IF obj_name = <<>> THEN EOk(<<>>)
    ELSE dump_keys_cons(dump_key(Head(obj_name)), dump_keys(Tail(obj_name)))

\* '.'.join(kl)
RECURSIVE dotted(_)
dotted(kl) ==
    IF kl = <<>> THEN <<>>
    ELSE IF Len(kl) = 1 THEN kl[1]
    ELSE kl[1] \o <<DOT>> \o dotted(Tail(kl))

\* all_keys.difference(dumped_keys): the keys that none of the three loops dumped
not_dumped(self, pairs) ==
    {n \in 1..Len(pairs) : /\ ~is_scalar(self, pairs[n].v, TRUE).val
                           /\ pairs[n].v.tag \notin {"dict", "list"}}

\* raise TOMLEncodeError("got object of non-encodable type on key '<path>'"):
\* names holds the path for each key not_dumped.pop() may return
ERaiseKey(names) == [st |-> "TOMLEncodeError", out |-> <<>>, names |-> names]

\* the check after the three loops: a key that no loop dumped
dump_sections_end(self, pairs, rv, obj_name) ==
    IF not_dumped(self, pairs) # {}
    THEN ERaiseKey({dotted(Append(obj_name, pairs[n].k)) : n \in not_dumped(self, pairs)})
    ELSE EOk(rv)

\* the third loop: the table arrays
RECURSIVE dump_tarrays(_, _, _, _, _)
RECURSIVE dump_entries(_, _, _, _, _)
dump_entries_add(r, self, ents, m, rv, name) ==
    IF r.st # "ok" THEN r
    ELSE dump_entries(self, ents, m + 1, rv \o r.out, name)

\* for ent in v: ... rv += self.dump_sections(ent, obj_name + [k], True)
dump_entries(self, ents, m, rv, name) ==
    IF m > Len(ents) THEN EOk(rv)
    ELSE dump_entries_add(dump_sections(self, ents[m], name, TRUE), self, ents, m,
                          IF Len(rv) > 0 THEN Append(rv, NLTok) ELSE rv, name)

dump_tarrays_add(r, self, pairs, n, obj_name) ==
    IF r.st # "ok" THEN r
    ELSE dump_tarrays(self, pairs, n + 1, Append(r.out, NLTok), obj_name)

dump_tarrays(self, pairs, n, rv, obj_name) ==
    IF n > Len(pairs) THEN dump_sections_end(self, pairs, rv, obj_name)
    ELSE IF pairs[n].v.tag = "list" /\ ~is_scalar(self, pairs[n].v, TRUE).val
    THEN dump_tarrays_add(dump_entries(self, pairs[n].v.val, 1, rv,
                                       Append(obj_name, pairs[n].k)),
                          self, pairs, n, obj_name)
    ELSE dump_tarrays(self, pairs, n + 1, rv, obj_name)

\* the second loop: the single tables
RECURSIVE dump_tables(_, _, _, _, _)
dump_tables_add(r, self, pairs, n, rv, obj_name) ==
    IF r.st # "ok" THEN r
    ELSE dump_tables(self, pairs, n + 1, rv \o r.out, obj_name)

dump_tables(self, pairs, n, rv, obj_name) ==
    IF n > Len(pairs) THEN dump_tarrays(self, pairs, 1, rv, obj_name)
    ELSE IF pairs[n].v.tag = "dict"
    THEN dump_tables_add(dump_sections(self, pairs[n].v, Append(obj_name, pairs[n].k), FALSE),
                         self, pairs, n,
                         IF Len(rv) > 0 THEN Append(rv, NLTok) ELSE rv, obj_name)
    ELSE dump_tables(self, pairs, n + 1, rv, obj_name)

\* the first loop: the scalars
RECURSIVE dump_scalars(_, _, _, _, _)
dump_scalars_line(k, v, self, pairs, n, rv, obj_name) ==
    IF k.st # "ok" THEN k
    ELSE IF v.st # "ok" THEN v
    ELSE dump_scalars(self, pairs, n + 1,
                      rv \o <<Stmt("pair", <<k.out>>, v.out), NLTok>>, obj_name)

dump_scalars_test(sc, self, pairs, n, rv, obj_name) ==
    IF sc.st # "ok" THEN ERaise(sc.st)
    ELSE IF sc.val
    THEN dump_scalars_line(dump_key(pairs[n].k), dump_value(self, pairs[n].v),
                           self, pairs, n, rv, obj_name)
    ELSE dump_scalars(self, pairs, n + 1, rv, obj_name)

\* one loop over the pairs that writes scalars and single tables as they come
dump_mixed_add(r, self, pairs, n, rv, obj_name) ==
    IF r.st # "ok" THEN r
    ELSE dump_scalars(self, pairs, n + 1, rv \o r.out, obj_name)

dump_scalars_mixed(self, pairs, n, rv, obj_name) ==
    IF n > Len(pairs) THEN dump_tarrays(self, pairs, 1, rv, obj_name)
    ELSE IF pairs[n].v.tag = "dict"
    THEN dump_mixed_add(dump_sections(self, pairs[n].v, Append(obj_name, pairs[n].k), FALSE),
                        self, pairs, n,
                        IF Len(rv) > 0 THEN Append(rv, NLTok) ELSE rv, obj_name)
    ELSE dump_scalars_test(is_scalar(self, pairs[n].v, TRUE), self, pairs, n, rv, obj_name)

dump_scalars(self, pairs, n, rv, obj_name) ==
    IF n > Len(pairs) THEN dump_tables(self, pairs, 1, rv, obj_name)
    ELSE dump_scalars_test(is_scalar(self, pairs[n].v, TRUE), self, pairs, n, rv, obj_name)

\* the header line, keys the dumped keys of obj_name
dump_header(keys, self, pairs, obj_name, tarray) ==
    IF keys.st # "ok" THEN keys
    ELSE dump_scalars(self, pairs, 1,
                      <<Stmt(IF tarray THEN "tarray" ELSE "table", keys.out, NoLit), NLTok>>,
                      obj_name)

\* any(self.is_scalar(i) for i in vlist) alone
header_test_scalars(anys, pairs, tarray) ==
    IF anys.st # "ok" THEN anys
    ELSE BOk(anys.val)

\* any(self.is_scalar(i) for i in vlist) or tarray or len(obj) == 0
header_test(anys, pairs, tarray) ==
    IF anys.st # "ok" THEN anys
    ELSE BOk(anys.val \/ tarray \/ Len(pairs) = 0)

dump_sections_header(h, self, pairs, obj_name, tarray) ==
    IF h.st # "ok" THEN ERaise(h.st)
    ELSE IF h.val THEN dump_header(dump_keys(obj_name), self, pairs, obj_name, tarray)
    ELSE dump_scalars(self, pairs, 1, <<>>, obj_name)

dump_sections_pairs(ep, self, obj_name, tarray) ==
    IF ep.st # "ok" THEN ERaise(ep.st)
    ELSE dump_sections_header(IF Len(obj_name) = 0 THEN BOk(FALSE)
                              ELSE header_test(any_is_scalar(self, vlist(ep.val), 1, TRUE),
                                               ep.val, tarray),
                              self, ep.val, obj_name, tarray)

\* obj.keys() raises AttributeError on an obj that is no dict
dump_sections(self, obj, obj_name, tarray) ==
    IF obj.tag # "dict" THEN ERaise("AttributeError")
    ELSE IF \E n \in 1..Len(obj.val) : ~IsStrKey(obj.val[n].k)
    THEN ERaise("TOMLEncodeError")
    ELSE dump_sections_pairs(encodable_pairs(self, obj.val, <<>>), self, obj_name, tarray)

encode_object(o, self) ==
    IF o.st # "ok" THEN ERaise(o.st)
    ELSE dump_sections(self, o.val, <<>>, FALSE)

encode(self, obj) == encode_object(_get_encodable_object(self, obj), self)

\* dumps(obj, encode_none, cls) is cls(encode_none).encode(obj)
dumps(obj, self) == encode(self, obj)

\* the dotted paths the message of the exception r may name: one of the keys
\* left undumped for the exception of dump_sections_end, none for any other
dumps_named(r) == IF "names" \in DOMAIN r THEN r.names ELSE {<<>>}

\* ------------------------------------ parse_string, one scanner call at a time
\* the arguments parse_dispatch_string hands to parse_string for the quotes at p
\* (the texts searched open with a quote character)
string_kind(p) ==
    IF at_string(p, <<DQ, DQ, DQ>>)
    THEN [delim |-> <<DQ, DQ, DQ>>, allow_escapes |-> TRUE, allow_newlines |-> TRUE,
          whitespace_escape |-> TRUE]
    ELSE IF at_string(p, <<DQ>>)
    THEN [delim |-> <<DQ>>, allow_escapes |-> TRUE, allow_newlines |-> FALSE,
          whitespace_escape |-> FALSE]
    ELSE IF at_string(p, <<SQ, SQ, SQ>>)
    THEN [delim |-> <<SQ, SQ, SQ>>, allow_escapes |-> FALSE, allow_newlines |-> TRUE,
          whitespace_escape |-> FALSE]
    ELSE [delim |-> <<SQ>>, allow_escapes |-> FALSE, allow_newlines |-> FALSE,
          whitespace_escape |-> FALSE]

\* ---------------------------------------------------------------- tomldict
(***************************************************************************)
(* An element of the format-preserving tree: cls its class, string its     *)
(* attribute string.  isstr is FALSE where that attribute holds the        *)
(* ParseState object the decoder function returned second, not a str.      *)
(* A DataPair holds its elements in data; key and value are the values of  *)
(* its Key and ScalarValue.                                                *)
(***************************************************************************)
TomlElem(cls, string) ==
    [cls |-> cls, string |-> string, isstr |-> TRUE, key |-> <<>>, value |-> <<>>,
     data |-> <<>>]
Key(string, value) == [TomlElem("Key", <<>>) EXCEPT !.isstr = string, !.value = value]
ScalarValue(string, value) ==
    [TomlElem("ScalarValue", <<>>) EXCEPT !.isstr = string, !.value = value]
DataPair(els, key, value) ==
    [TomlElem("DataPair", <<>>) EXCEPT !.data = els, !.key = key, !.value = value]

\* results of the parsers of tomldict: the elements parsed, or the exception
TOk(els, p) == [st |-> "ok", msg |-> "", els |-> els, p |-> p]
TRaise(kind, msg, p) == [st |-> kind, msg |-> msg, els |-> <<>>, p |-> p]

Whitespace_made(r, require_newlines) ==
    IF Len(r.d) = 0 THEN TOk(<<>>, r.p)
    ELSE IF require_newlines /\ ~Contains(r.d, <<NL>>)
    THEN TRaise("TOMLDecodeError", "Didn't find required newline", r.p)
    ELSE TOk(<<TomlElem("Whitespace", r.d)>>, r.p)

Whitespace_parse(p, allow_newlines, require_newlines) ==
    Whitespace_made(advance_through_class(p, {SPC, TAB} \cup
                                             (IF allow_newlines THEN {13, NL} ELSE {})),
                    require_newlines)

\* sv = sv[-1] keeps the last character; p._index -= 1 moves the index alone
Comment_made(r) ==
    IF endswith(r.d, <<NL>>)
    THEN TOk(<<TomlElem("Comment", <<r.d[Len(r.d)]>>)>>, [r.p EXCEPT !.index = r.p.index - 1])
    ELSE TOk(<<TomlElem("Comment", r.d)>>, r.p)

Comment_parse(p) ==
    IF ~at_string(p, <<35>>)
    THEN TRaise("TOMLDecodeError", "Tried to parse comment at non-comment", p)
    ELSE Comment_made(advance_until(p, <<NL>>))

\* v, s = parse_...(p): s is the second component, the ParseState
ScalarValue_made(r) ==
    IF r.st # "ok" THEN TRaise(r.st, r.msg, r.p)
    ELSE TOk(<<ScalarValue(FALSE, r.val)>>, r.p)

\* the documents of this model hold no '.', 'e', 'i' or 'n': float_re matches
\* none of their texts
ScalarValue_parse(p) ==
    IF get(p, 1) \in {<<DQ>>, <<SQ>>}
    THEN ScalarValue_made(StrValue(parse_dispatch_string(p, TRUE)))
    ELSE IF int_re_match(p.string, p.index) # -1 THEN ScalarValue_made(parse_int(p))
    ELSE IF is_date_or_time(p) THEN ScalarValue_made(parse_datetime(p))
    ELSE TRaise("TOMLDecodeError", "can't parse scalar type", p)

RECURSIVE parse_blanklines_from(_, _)
parse_blanklines_comment(c, rv) ==
    parse_blanklines_from(c.p, rv \o c.els)

parse_blanklines_ws(w, rv) ==
    IF at_string(w.p, <<35>>)
    THEN parse_blanklines_comment(Comment_parse(w.p), rv \o w.els)
    ELSE TOk(rv \o w.els, w.p)

\* the while loop of parse_blanklines
parse_blanklines_from(p, rv) ==
    parse_blanklines_ws(Whitespace_parse(p, TRUE, FALSE), rv)

parse_blanklines_check(r, require_newlines) ==
    IF /\ require_newlines
       /\ ~\E i \in 1..Len(r.els) :
              r.els[i].cls = "Whitespace" /\ Contains(r.els[i].string, <<NL>>)
    THEN TRaise("TOMLDecodeError", "Required newline not found", r.p)
    ELSE r

parse_blanklines(p, require_newlines) ==
    parse_blanklines_check(parse_blanklines_from(p, <<>>), require_newlines)

\* parse_pair from the value on: rv holds the key, '=' and the white space
parse_pair_value(v, rv) ==
    IF v.st # "ok" THEN v
    ELSE TOk(<<DataPair(rv \o v.els, rv[1].value, v.els[1].value)>>, v.p)

parse_pair_ws2(w, rv) ==
    parse_pair_value(ScalarValue_parse(w.p), rv \o w.els)

parse_pair_eq(w, rv) ==
    IF ~at_string(w.p, <<61>>)
    THEN TRaise("TOMLDecodeError", "no = following key", w.p)
    ELSE parse_pair_ws2(Whitespace_parse(advance(w.p, 1).p, FALSE, FALSE),
                        rv \o w.els \o <<TomlElem("Punct", <<61>>)>>)

parse_pair_key(k) ==
    IF k.st # "ok" THEN TRaise(k.st, k.msg, k.p)
    ELSE parse_pair_eq(Whitespace_parse(k.p, FALSE, FALSE), <<Key(FALSE, k.val)>>)

parse_pair(p) == parse_pair_key(parse_key(p))

\* ComplexElem.string: ''.join(i.string for i in self.data); join raises
\* TypeError on an item that is not a str
RECURSIVE string(_)
string_join(h, t) ==
    IF h.st # "ok" THEN h
    ELSE IF t.st # "ok" THEN t
    ELSE VOk(h.val \o t.val)

string_of(e) ==
    IF e.cls = "DataPair" THEN string(e.data)
    ELSE IF ~e.isstr THEN VRaise("TypeError", "expected str instance, ParseState found")
    ELSE VOk(e.string)

string(els) ==
    IF els = <<>> THEN VOk(<<>>)
    ELSE string_join(string_of(Head(els)), string(Tail(els)))

\* ------------------------------------------------- the decoder as a machine
VARIABLES
    rv, cur_target, toplevel_targets, toplevel_arrays, first, line,  \* locals of loads
    status,     \* "running", "returned", or the class of the exception raised
    msg,        \* the message of the exception
    nstmts,     \* statements read so far
    last,       \* the statement read last: [nl, stmt]
    bound,      \* where the last pair bound its value (<<>>: it bound none)
    headed,     \* history: the tables a [p] header has named
    sealed,     \* history: the tables a pair bound to an inline-table literal,
                \* each [loc, keys] with the keys written between its braces
    literal_arrays, \* history: the arrays a pair bound to an array literal
    obj,        \* the value tree handed to dumps
    text,       \* the document dumps returned, as tokens
    pos,        \* tokens of text that loads has read
    encoder,    \* the encoder object dumps creates
    enc,        \* "unused", "init", "ok", or the class of the exception dumps raised
    emsg,       \* the dotted path the message of that exception names, if any
    p,          \* the ParseState of the scanner
    sv,         \* the local sv of parse_string
    pc,         \* where the scanner's caller stands
    data        \* the elements of the DictElem that TomlDict builds

dvars == <<rv, cur_target, toplevel_targets, toplevel_arrays, first, line, status, msg,
           nstmts, last, bound, headed, sealed, literal_arrays>>
evars == <<obj, text, pos, encoder, enc, emsg>>
svars == <<p, sv, pc, data>>
vars == <<dvars, evars, svars>>

\* bounds of the model
MaxStmts == 3
MaxNl == 1

KA == <<Ch_a>>
KB == <<Ch_b>>
Lit1 == Text(<<Ch_1>>)
Lit2 == Text(<<50>>)
LitX == Text(<<SQ, 120, SQ>>)
LitBadDate == Text(<<50, 48, 50, 48, 45, 49, 51, 45, 48, 49>>)
LitDate == Text(<<50, 48, 50, 48, 45, 49, 50, 45, 48, 49>>)
\* a multi-line literal string with a newline inside: '''x<newline>'''
LitML == Text(<<SQ, SQ, SQ, 120, NL, SQ, SQ, SQ>>)

\* the key lists and value literals the statements of the model are made of
KeyLists == {<<KA>>, <<KB>>, <<KA, KB>>, <<KA, KB, KA>>}
Literals ==
    <<Lit1, LitBadDate,
      ArrayLit(<<>>), ArrayLit(<<Lit1, LitX>>), ArrayLit(<<InlineLit(<<>>)>>),
      InlineLit(<<>>), InlineLit(<<Entry(<<KA>>, Lit1), Entry(<<KA>>, Lit2)>>),
      InlineLit(<<Entry(<<KB>>, ArrayLit(<<Lit1>>))>>), LitML>>

DecoderState ==
    [rv |-> rv, cur_target |-> cur_target, toplevel_targets |-> toplevel_targets,
     toplevel_arrays |-> toplevel_arrays, first |-> first, line |-> line,
     status |-> status, msg |-> msg, bound |-> bound]

DecoderInit ==
    /\ rv = loads_init.rv /\ cur_target = loads_init.cur_target
    /\ toplevel_targets = loads_init.toplevel_targets
    /\ toplevel_arrays = loads_init.toplevel_arrays
    /\ first = loads_init.first /\ line = loads_init.line
    /\ status = loads_init.status /\ msg = loads_init.msg /\ bound = loads_init.bound
    /\ nstmts = 0 /\ last = [nl |-> 0, stmt |-> NLTok]
    /\ headed = {} /\ sealed = {} /\ literal_arrays = {}
    /\ sv = <<>> /\ data = <<>>

\* the locals of loads after the iteration are s
Iterated(s, nl, stmt) ==
    /\ rv' = s.rv /\ cur_target' = s.cur_target
    /\ toplevel_targets' = s.toplevel_targets
    /\ toplevel_arrays' = s.toplevel_arrays
    /\ first' = s.first /\ line' = s.line
    /\ status' = s.status /\ msg' = s.msg /\ bound' = s.bound
    /\ nstmts' = nstmts + 1
    /\ last' = [nl |-> nl, stmt |-> stmt]
    /\ headed' = IF s.status = "running" /\ stmt.kind = "table"
                 THEN headed \cup {s.cur_target} ELSE headed
    /\ sealed' = IF s.status = "running" /\ stmt.kind = "pair" /\ stmt.v.tag = "itable"
                 THEN sealed \cup {[loc |-> s.bound, keys |-> KeysOf(GetAt(s.rv, s.bound))]}
                 ELSE sealed
    /\ literal_arrays' = IF s.status = "running" /\ stmt.kind = "pair" /\ stmt.v.tag = "array"
                         THEN literal_arrays \cup {s.bound} ELSE literal_arrays

\* loads reads one statement, nl newlines after the previous one
ReadStmt(nl, stmt) == Iterated(loads_step(DecoderState, nl, stmt), nl, stmt)

Init ==
    /\ DecoderInit
    /\ obj = EmptyDict /\ text = <<>> /\ pos = 0 /\ enc = "unused" /\ emsg = <<>>
    /\ encoder = TOMLEncoder(VNone)
    /\ p = ParseState(<<>>) /\ pc = "loads"

TableHeader(nl, kl) ==
    /\ status = "running" /\ nstmts < MaxStmts
    /\ ReadStmt(nl, Stmt("table", kl, NoLit))
    /\ UNCHANGED <<evars, svars>>

TableArrayHeader(nl, kl) ==
    /\ status = "running" /\ nstmts < MaxStmts
    /\ ReadStmt(nl, Stmt("tarray", kl, NoLit))
    /\ UNCHANGED <<evars, svars>>

Pair(nl, kl, v) ==
    /\ status = "running" /\ nstmts < MaxStmts
    /\ ReadStmt(nl, Stmt("pair", kl, v))
    /\ UNCHANGED <<evars, svars>>

\* the end of the input: loads returns rv
Return ==
    /\ status = "running"
    /\ status' = "returned"
    /\ UNCHANGED <<rv, cur_target, toplevel_targets, toplevel_arrays, first, line, msg,
                   nstmts, last, bound, headed, sealed, literal_arrays>>
    /\ UNCHANGED <<evars, svars>>

Next ==
    \/ \E nl \in 0..MaxNl, kl \in KeyLists : TableHeader(nl, kl)
    \/ \E nl \in 0..MaxNl, kl \in KeyLists : TableArrayHeader(nl, kl)
    \/ \E nl \in 0..MaxNl, kl \in KeyLists, i \in 1..Len(Literals) : Pair(nl, kl, Literals[i])
    \/ Return

Spec == Init /\ [][Next]_vars

\* ------------------------------------------- dumps, then loads of its text
\* bounds of the value trees handed to dumps
MaxInt == 1
Year == 2020

\* the leaves and the inner keys the trees are made of
Leaves ==
    <<VInt(MaxInt), VStr(<<120>>), VStr(<<DEL>>), VBool(TRUE), VDate(Year, 12, 1),
      VNone, VFunc, VPath(<<120>>), VList(<<>>), EmptyDict, VTuple(<<EmptyDict>>)>>
InnerKeys == {KB, <<DEL>>, <<-1>>}
Shapes == 1..7

\* the tree of shape sh on the key k and the leaves x, y
Build(sh, k, x, y) ==
    CASE sh = 1 -> VDict(<<Item(k, x)>>)
      [] sh = 2 -> VDict(<<Item(KA, x), Item(k, y)>>)
      [] sh = 3 -> VDict(<<Item(KA, VList(<<x, y>>))>>)
      [] sh = 4 -> VDict(<<Item(KA, VDict(<<Item(k, x)>>))>>)
      [] sh = 5 -> VDict(<<Item(KA, VList(<<VDict(<<Item(k, x)>>), VDict(<<Item(k, y)>>)>>))>>)
      [] sh = 6 -> VDict(<<Item(KA, VList(<<VList(<<VDict(<<Item(k, x)>>)>>), y>>))>>)
      [] sh = 7 -> VDict(<<Item(KA, VList(<<VDict(<<Item(KB, x)>>)>>)),
                           Item(<<99>>, VDict(<<Item(KA, VDict(<<Item(KB, x)>>)), Item(k, y)>>)),
                           Item(KB, x)>>)

Encoders == <<TOMLEncoder(VNone), TOMLEncoder(VInt(0)), PathEncoder(VNone)>>

InitRT ==
    /\ DecoderInit
    /\ \E sh \in Shapes, k \in InnerKeys, i \in 1..Len(Leaves), j \in 1..Len(Leaves) :
          obj = Build(sh, k, Leaves[i], Leaves[j])
    /\ \E e \in 1..Len(Encoders) : encoder = Encoders[e]
    /\ text = <<>> /\ pos = 0 /\ enc = "init" /\ emsg = <<>>
    /\ p = ParseState(<<>>) /\ pc = "loads"

\* dumps(obj) returns text or raises
Dumps ==
    /\ enc = "init"
    /\ enc' = dumps(obj, encoder).st
    /\ text' = dumps(obj, encoder).out
    /\ emsg' \in dumps_named(dumps(obj, encoder))
    /\ UNCHANGED <<obj, pos, encoder>>
    /\ UNCHANGED <<dvars, svars>>

\* the index of the first statement of text after index n, 0 when there is none
NextStmt(n) ==
    IF \E m \in (n + 1)..Len(text) : text[m].kind # "nl"
    THEN CHOOSE m \in (n + 1)..Len(text) :
             /\ text[m].kind # "nl"
             /\ \A q \in (n + 1)..(m - 1) : text[q].kind = "nl"
    ELSE 0

\* loads(text) reads the next statement of the text
LoadStmt ==
    /\ enc = "ok" /\ status = "running" /\ NextStmt(pos) # 0
    /\ ReadStmt(NextStmt(pos) - pos - 1, text[NextStmt(pos)])
    /\ pos' = NextStmt(pos)
    /\ UNCHANGED <<obj, text, encoder, enc, emsg, svars>>

\* loads(text) is at the end of the text and returns rv
LoadReturn ==
    /\ enc = "ok" /\ status = "running" /\ NextStmt(pos) = 0
    /\ status' = "returned"
    /\ pos' = Len(text)
    /\ UNCHANGED <<rv, cur_target, toplevel_targets, toplevel_arrays, first, line, msg,
                   nstmts, last, bound, headed, sealed, literal_arrays>>
    /\ UNCHANGED <<obj, text, encoder, enc, emsg, svars>>

NextRT == Dumps \/ LoadStmt \/ LoadReturn

SpecRT == InitRT /\ [][NextRT]_vars

\* -------------------------------- dump_str / dump_key, then the string parser
(***************************************************************************)
(* A str s is written as the value of one pair (dump_str) or as its key    *)
(* (dump_key), and the literal is read back by the parser of values        *)
(* (parse_value) or of keys (parse_keylist).  obj is {a: s} or {s: MaxInt}, *)
(* text is here the literal itself, character by character, and rv the     *)
(* table read back.                                                        *)
(***************************************************************************)
MaxLen == 3
Alphabet == {0, TAB, NL, 13, 31, DEL, DQ, SQ, BSL, Ch_a}
Strings == UNION {[1..n -> Alphabet] : n \in 0..MaxLen}

InitStr ==
    /\ DecoderInit
    /\ \E s \in Strings :
          \/ obj = VDict(<<Item(KA, VStr(s))>>)
          \/ obj = VDict(<<Item(s, VInt(MaxInt))>>)
    /\ encoder = TOMLEncoder(VNone)
    /\ text = <<>> /\ pos = 0 /\ enc = "init" /\ emsg = <<>>
    /\ p = ParseState(<<>>) /\ pc = "loads"

\* the literal is r.out, or the encoder raised
Written(r) ==
    /\ enc' = r.st
    /\ text' = r.out
    /\ UNCHANGED <<obj, pos, encoder, emsg>>
    /\ UNCHANGED <<dvars, svars>>

\* f"{self.dump_key(k)} = {self.dump_value(v)}\n" for a str v
DumpStr ==
    /\ enc = "init" /\ obj.val[1].v.tag = "str"
    /\ Written(dump_str(obj.val[1].v.val, TRUE))

DumpKey ==
    /\ enc = "init" /\ obj.val[1].v.tag = "int"
    /\ Written(dump_key(obj.val[1].k))

\* the parser returned r.val, which makes the table tree, or raised
ReadBack(r, tree) ==
    /\ status' = IF r.st = "ok" THEN "returned" ELSE r.st
    /\ msg' = IF r.st = "ok" THEN "" ELSE r.msg
    /\ rv' = IF r.st = "ok" THEN tree ELSE rv
    /\ pos' = Len(text)
    /\ UNCHANGED <<cur_target, toplevel_targets, toplevel_arrays, first, line,
                   nstmts, last, bound, headed, sealed, literal_arrays>>
    /\ UNCHANGED <<obj, text, encoder, enc, emsg, svars>>

ParsedStr(r) == ReadBack(r, VDict(<<Item(KA, r.val)>>))
ParsedKey(r) == ReadBack(r, VDict(<<Item(r.val[1], VInt(MaxInt))>>))

ParseStr ==
    /\ enc = "ok" /\ status = "running" /\ obj.val[1].v.tag = "str"
    /\ ParsedStr(parse_value(Text(text)))

ParseKey ==
    /\ enc = "ok" /\ status = "running" /\ obj.val[1].v.tag = "int"
    /\ ParsedKey(parse_keylist(<<text>>))

NextStr == DumpStr \/ DumpKey \/ ParseStr \/ ParseKey

SpecStr == InitStr /\ [][NextStr]_vars

\* ------------------------------- dump_str / dump_key on strings with quotes
\* strings long enough to hold ''' after a newline
MaxQuote == 5
QuoteChars == {SQ, NL, Ch_a}
Quotes_s == UNION {[1..n -> QuoteChars] : n \in 0..MaxQuote}

InitQuote ==
    /\ DecoderInit
    /\ \E s \in Quotes_s :
          \/ obj = VDict(<<Item(KA, VStr(s))>>)
          \/ obj = VDict(<<Item(s, VInt(MaxInt))>>)
    /\ encoder = TOMLEncoder(VNone)
    /\ text = <<>> /\ pos = 0 /\ enc = "init" /\ emsg = <<>>
    /\ p = ParseState(<<>>) /\ pc = "loads"

SpecQuote == InitQuote /\ [][NextStr]_vars

\* ------------------------------------------------- TomlDict(text) as a machine
(***************************************************************************)
(* text is the document, character by character; p the ParseState of       *)
(* TomlDict._parse; data the elements of the DictElem; rv its keydata,     *)
(* each key with the value of its pair, which is what dict(TomlDict(text)) *)
(* reads through __getitem__.                                              *)
(***************************************************************************)
MaxDoc == 5
DocChars == {SPC, NL, 35, Ch_a, 61, Ch_1, SQ}
Docs == UNION {[1..n -> DocChars] : n \in 0..MaxDoc}

InitTD ==
    /\ DecoderInit
    /\ obj = EmptyDict /\ pos = 0 /\ enc = "unused" /\ emsg = <<>>
    /\ encoder = TOMLEncoder(VNone)
    /\ text \in Docs
    /\ p = ParseState(text) /\ pc = "blank"

TDUnchanged ==
    /\ UNCHANGED <<cur_target, toplevel_targets, toplevel_arrays, first, line,
                   nstmts, last, bound, headed, sealed, literal_arrays>>
    /\ UNCHANGED <<evars, sv>>

\* rv.data.extend(parse_blanklines(p)); if p.at_end(): break
Blanklines(r) ==
    /\ data' = data \o r.els
    /\ p' = r.p
    /\ pc' = IF at_end(r.p) THEN "done" ELSE "pair"
    /\ status' = IF at_end(r.p) THEN "returned" ELSE status
    /\ UNCHANGED <<rv, msg>>
    /\ TDUnchanged

ParseBlanklines ==
    /\ pc = "blank" /\ status = "running"
    /\ Blanklines(parse_blanklines(p, FALSE))

\* pair = parse_pair(p)[0]; rv.data.append(pair); rv.keydata[pair.key.value] = pair
Paired(r) ==
    /\ p' = r.p
    /\ status' = IF r.st = "ok" THEN status ELSE r.st
    /\ msg' = IF r.st = "ok" THEN msg ELSE r.msg
    /\ pc' = IF r.st = "ok" THEN "blank" ELSE "done"
    /\ data' = data \o r.els
    /\ rv' = IF r.st = "ok" THEN DictPut(rv, r.els[1].key, r.els[1].value) ELSE rv
    /\ TDUnchanged

ParsePair ==
    /\ pc = "pair" /\ status = "running"
    /\ Paired(parse_pair(p))

NextTD == ParseBlanklines \/ ParsePair

SpecTD == InitTD /\ [][NextTD]_vars

\* ------------------------------------------------ the scanner as a machine
(***************************************************************************)
(* The methods of ParseState called in any order on a ParseState made for  *)
(* text; pc names the method called last.                                  *)
(***************************************************************************)
MaxText == 4
ScanChars == {NL, Ch_a, SPC}
Texts == UNION {[1..n -> ScanChars] : n \in 0..MaxText}

\* the variables a scanner call leaves alone
ScanUnchanged ==
    /\ UNCHANGED <<cur_target, toplevel_targets, toplevel_arrays, first, line,
                   nstmts, last, bound, headed, sealed, literal_arrays>>
    /\ UNCHANGED <<evars, data>>

InitScan ==
    /\ DecoderInit
    /\ obj = EmptyDict /\ pos = 0 /\ enc = "unused" /\ emsg = <<>>
    /\ encoder = TOMLEncoder(VNone)
    /\ text \in Texts
    /\ p = ParseState(text) /\ pc = "ParseState"

\* the call of the method named op left the scanner as q
Called(op, q) ==
    /\ p' = q /\ pc' = op
    /\ UNCHANGED <<rv, status, msg, sv>>
    /\ ScanUnchanged

Advance(n) ==
    /\ pc \in {"ParseState", "advance", "advance_through_class", "advance_until", "backtrack"}
    /\ n <= Len(text) - p.index
    /\ Called("advance", advance(p, n).p)

AdvanceThroughClass(cls) ==
    /\ pc \in {"ParseState", "advance", "advance_through_class", "advance_until", "backtrack"}
    /\ Called("advance_through_class", advance_through_class(p, cls).p)

AdvanceUntil(s) ==
    /\ pc \in {"ParseState", "advance", "advance_through_class", "advance_until", "backtrack"}
    /\ Called("advance_until", advance_until(p, s).p)

Backtrack(n) ==
    /\ pc \in {"ParseState", "advance", "advance_through_class", "advance_until", "backtrack"}
    /\ Called("backtrack", backtrack(p, n))

NextScan ==
    \/ \E n \in 0..MaxText : Advance(n)
    \/ \E cls \in SUBSET ScanChars : AdvanceThroughClass(cls)
    \/ \E s \in {<<NL>>, <<Ch_a>>, <<Ch_a, NL>>} : AdvanceUntil(s)
    \/ \E n \in 0..(MaxText + 1) : Backtrack(n)

SpecScan == InitScan /\ [][NextScan]_vars

\* ----------------------------------------- parse_string as a machine
(***************************************************************************)
(* parse_dispatch_string on text, a quoted string, one scanner call of the *)
(* search for the closing delimiter at a time.  sv is the local of that    *)
(* name, and the str returned in the end.  pc: "dispatch" before the call, *)
(* "until" at the head of the first while loop, "found" after              *)
(* advance_until, "closed" after the loop, "done" after the return or the  *)
(* raise.                                                                  *)
(***************************************************************************)
MaxBody == 6
BodyChars == {DQ, SQ, BSL, Ch_a}
Bodies == UNION {[1..n -> BodyChars] : n \in 0..MaxBody}
Openings == {<<DQ>>, <<DQ, DQ, DQ>>, <<SQ>>, <<SQ, SQ, SQ>>}

\* the texts "\uXXXX" and "\UXXXXXXXX" of the model, and the ones cut short
HexChars == {Ch_0, 55, 56, 100, 101, 102, Ch_plus, Ch_us, SPC}
Planes == {<<Ch_0, Ch_0, Ch_0, Ch_0>>, <<Ch_0, Ch_0, Ch_0, Ch_1>>,
           <<Ch_0, Ch_0, Ch_1, Ch_0>>, <<Ch_0, Ch_0, Ch_1, Ch_1>>}
Escape(c, h) == <<DQ, BSL, c>> \o h \o <<DQ>>
Escapes ==
    {Escape(Ch_u, h) : h \in UNION {[1..n -> HexChars] : n \in 0..4}}
    \cup {Escape(Ch_U, hi \o lo) : hi \in Planes, lo \in [1..4 -> {Ch_0, 55, 56, 100, 101, 102}]}

Quoted == {o \o b : o \in Openings, b \in Bodies}

\* what string_kind chose for text
Kind == string_kind(ParseState(text))

\* before the call: no text yet
InitCall ==
    /\ DecoderInit
    /\ obj = EmptyDict /\ pos = 0 /\ enc = "unused" /\ emsg = <<>>
    /\ encoder = TOMLEncoder(VNone)
    /\ text = <<>>
    /\ p = ParseState(text) /\ pc = "call"

InitLex ==
    /\ DecoderInit
    /\ obj = EmptyDict /\ pos = 0 /\ enc = "unused" /\ emsg = <<>>
    /\ encoder = TOMLEncoder(VNone)
    /\ text \in Quoted \cup Escapes
    /\ p = ParseState(text) /\ pc = "dispatch"

\* parse_string raises
Raised(r) ==
    /\ status' = r.st /\ msg' = r.msg /\ p' = r.p /\ pc' = "done"
    /\ UNCHANGED <<rv, sv>>
    /\ ScanUnchanged

\* p.advance(len(delim)); sv = ""
Dispatch ==
    /\ pc = "dispatch"
    /\ p' = advance(p, Len(Kind.delim)).p
    /\ sv' = <<>>
    /\ pc' = "until"
    /\ UNCHANGED <<rv, status, msg>>
    /\ ScanUnchanged

\* sv += p.advance_until(delim)
Until ==
    /\ pc = "until"
    /\ p' = advance_until(p, Kind.delim).p
    /\ sv' = sv \o advance_until(p, Kind.delim).d
    /\ pc' = "found"
    /\ UNCHANGED <<rv, status, msg>>
    /\ ScanUnchanged

\* the end of a pass that found the delimiter escaped; q is p after the backtrack
Resume(q, n_remove) ==
    IF at_end(q)
    THEN /\ Raised(Raise("TOMLDecodeError", "end of file after escaped delimiter", q))
    ELSE /\ p' = q
         /\ sv' = IF n_remove > 0 THEN DropLast(sv, n_remove) ELSE sv
         /\ pc' = "until"
         /\ UNCHANGED <<rv, status, msg>>
         /\ ScanUnchanged

\* the rest of a pass of the first while loop
Found ==
    /\ pc = "found"
    /\ IF at_end(p) /\ ~endswith(sv, Kind.delim)
       THEN Raised(Raise("TOMLDecodeError", "end of file inside string", p))
       ELSE IF Kind.allow_escapes /\ escaped(sv, Kind.delim)
       THEN Resume(IF Len(Kind.delim) - 1 > 0 THEN backtrack(p, Len(Kind.delim) - 1) ELSE p,
                   Len(Kind.delim) - 1)
       ELSE /\ pc' = "closed"
            /\ UNCHANGED <<p, sv, rv, status, msg>>
            /\ ScanUnchanged

\* parse_string returns r.val, or raises
Returned(r) ==
    IF r.st # "ok" THEN Raised(r)
    ELSE /\ sv' = r.val /\ status' = "returned" /\ pc' = "done"
         /\ UNCHANGED <<rv, msg, p>>
         /\ ScanUnchanged

\* parse_string after the first while loop
Finish ==
    /\ pc = "closed"
    /\ Returned(parse_string_value(DropLast(sv, Len(Kind.delim)), p, Kind.allow_escapes,
                                   Kind.allow_newlines, Kind.whitespace_escape))

NextLex == Dispatch \/ Until \/ Found \/ Finish

SpecLex == InitLex /\ [][NextLex]_vars

\* the basic strings searched under fairness
MaxBasic == 4
Basic == {o \o b : o \in {<<DQ>>, <<DQ, DQ, DQ>>},
                   b \in UNION {[1..n -> {DQ, BSL, Ch_a}] : n \in 0..MaxBasic}}

\* the caller makes the ParseState for a quoted string t
Call(t) ==
    /\ pc = "call"
    /\ text' = t
    /\ p' = ParseState(t)
    /\ pc' = "dispatch"
    /\ UNCHANGED <<rv, status, msg, sv>>
    /\ UNCHANGED <<cur_target, toplevel_targets, toplevel_arrays, first, line,
                   nstmts, last, bound, headed, sealed, literal_arrays>>
    /\ UNCHANGED <<obj, pos, encoder, enc, emsg, data>>

NextCall == (pc = "call" /\ \E t \in Basic : Call(t)) \/ NextLex

\* the code is synchronous: a step that can be taken is taken
SpecLexFair == InitCall /\ [][NextCall]_vars /\ WF_vars(NextCall)

\* --------------------------------- parse_string on strings with white space
\* closed strings of the four kinds whose bodies hold backslashes, spaces,
\* tabs and newlines, and scenario 6 of the specification: \, newline, four
\* spaces, foo in a multi-line basic string
MaxCont == 4
ContChars == {BSL, SPC, TAB, NL, Ch_a}
ContBodies == UNION {[1..n -> ContChars] : n \in 0..MaxCont}
FooBody == <<BSL, NL, SPC, SPC, SPC, SPC, 102, 111, 111>>
Continued == {o \o b \o o : o \in Openings, b \in ContBodies \cup {FooBody}}

InitCont ==
    /\ DecoderInit
    /\ obj = EmptyDict /\ pos = 0 /\ enc = "unused" /\ emsg = <<>>
    /\ encoder = TOMLEncoder(VNone)
    /\ text \in Continued
    /\ p = ParseState(text) /\ pc = "dispatch"

SpecCont == InitCont /\ [][NextLex]_vars

\* ------------------------------------------- parse_value on a number token
(***************************************************************************)
(* text is one token of a value position, made of the characters of        *)
(* integers; it holds no '.', 'e', 'E', ':' and no letter of inf or nan,   *)
(* so float_re matches it only where int_re does, and no date or time      *)
(* matches.  pc is the branch of parse_value that runs, rv the table       *)
(* {a: value} once the value is read.                                      *)
(***************************************************************************)
MaxTok == 5
IntChars == {Ch_0, Ch_1, 56, Ch_b, 111, 120, Ch_us, Ch_minus}
Tokens == UNION {[1..n -> IntChars] : n \in 1..MaxTok}

InitInt ==
    /\ DecoderInit
    /\ obj = EmptyDict /\ pos = 0 /\ enc = "unused" /\ emsg = <<>>
    /\ encoder = TOMLEncoder(VNone)
    /\ text \in Tokens
    /\ p = ParseState(text) /\ pc = "parse_value"

IntUnchanged ==
    /\ UNCHANGED <<cur_target, toplevel_targets, toplevel_arrays, first, line,
                   nstmts, last, bound, headed, sealed, literal_arrays>>
    /\ UNCHANGED <<evars, sv, data>>

\* elif int_re.match(p._string, pos=p._index)
MatchInt ==
    /\ pc = "parse_value"
    /\ pc' = IF int_re_match(p.string, p.index) # -1 THEN "parse_int" ELSE "else"
    /\ UNCHANGED <<rv, status, msg, p>>
    /\ IntUnchanged

\* the branch returned r.val, which the pair binds to its key, or raised
ValueRead(r) ==
    /\ pc' = "done"
    /\ p' = IF r.st = "ok" THEN advance(p, Len(text)).p ELSE p
    /\ status' = IF r.st = "ok" THEN "returned" ELSE r.st
    /\ msg' = IF r.st = "ok" THEN "" ELSE r.msg
    /\ rv' = IF r.st = "ok" THEN VDict(<<Item(KA, r.val)>>) ELSE rv
    /\ IntUnchanged

ParseInt ==
    /\ pc = "parse_int"
    /\ ValueRead(WholeToken(parse_int(p)))

\* the branches after int_re: float_re, is_date_or_time, "can't parse type"
ParseOther ==
    /\ pc = "else"
    /\ ValueRead(parse_scalar_at(p))

NextInt == MatchInt \/ ParseInt \/ ParseOther

SpecInt == InitInt /\ [][NextInt]_vars

\* ---------------------------------------------------- notions of the claims
\* equality of value trees as Python's ==: the keys of a dict in any order
RECURSIVE Same(_, _)
Same(a, b) ==
    /\ a.tag = b.tag
    /\ IF a.tag = "dict"
       THEN /\ Len(a.val) = Len(b.val)
            /\ \A n \in 1..Len(a.val) :
                  /\ HasKey(b, a.val[n].k)
                  /\ Same(a.val[n].v, DictGet(b, a.val[n].k))
       ELSE IF a.tag \in {"list", "tuple"}
       THEN /\ Len(a.val) = Len(b.val)
            /\ \A n \in 1..Len(a.val) : Same(a.val[n], b.val[n])
       ELSE a.val = b.val

\* location loc names a value of the tree
RECURSIVE Exists(_, _)
Exists(tree, loc) ==
    IF loc = <<>> THEN TRUE
    ELSE /\ tree.tag = "dict" /\ HasKey(tree, Head(loc).k)
         /\ IF Head(loc).i = 0 THEN Exists(DictGet(tree, Head(loc).k), Tail(loc))
            ELSE /\ DictGet(tree, Head(loc).k).tag = "list"
                 /\ Head(loc).i <= Len(DictGet(tree, Head(loc).k).val)
                 /\ Exists(DictGet(tree, Head(loc).k).val[Head(loc).i], Tail(loc))

(***************************************************************************)
(* The bindings a path names.  Trace(tree, c, ks) follows the keys ks from *)
(* the table at location c, through tables and through the last element of *)
(* an array, and lists the location of the value bound to each key for as  *)
(* long as the keys are bound.                                             *)
(***************************************************************************)
RECURSIVE Trace(_, _, _)
Trace(tree, c, ks) ==
    IF ks = <<>> \/ GetAt(tree, c).tag # "dict" \/ ~HasKey(GetAt(tree, c), Head(ks))
    THEN <<>>
    ELSE LET at == Append(c, Step(Head(ks), 0))
             v  == GetAt(tree, at)
         IN  <<at>> \o
             (IF v.tag = "dict" THEN Trace(tree, at, Tail(ks))
              ELSE IF v.tag = "list" /\ Len(v.val) > 0
              THEN Trace(tree, Append(c, Step(Head(ks), Len(v.val))), Tail(ks))
              ELSE <<>>)

IsScalar(v) == v.tag \notin {"dict", "list"}

\* the step reads a statement; the statement, its keys, the newlines before it
Read == nstmts' = nstmts + 1
ReadKind == last'.stmt.kind
ReadKeys == parse_keylist(last'.stmt.kl).val
ReadHeader == Read /\ ReadKind \in {"table", "tarray"}
\* a pair whose value is well formed
ReadPair == Read /\ ReadKind = "pair" /\ parse_value(last'.stmt.v).st = "ok"
\* the statement is on a line of its own
Separated == first \/ last'.nl >= 1
\* the bindings the path of the statement names: a header's from the root, a
\* pair's from the current target
ReadTrace == Trace(rv, IF ReadKind = "pair" THEN cur_target ELSE <<>>, ReadKeys)
FullyBound == Len(ReadTrace) = Len(ReadKeys)
Terminal == ReadTrace[Len(ReadKeys)]

\* the keys along a location
PathKeys(loc) == [j \in 1..Len(loc) |-> loc[j].k]
IsPrefix(s, t) == Len(s) <= Len(t) /\ SubSeq(t, 1, Len(s)) = s

\* ------------------------------------------------------------------ claims
\* C2: loads returns a table or raises TOMLDecodeError, and fails with no
\* other kind of exception, whatever the input.
C2_DecodeErrorOnly == status \in {"running", "returned", "TOMLDecodeError"}

\* C2: a run that left loads with an exception that is no TOMLDecodeError
C2_OtherException == status \in {"IndexError", "TypeError", "ValueError"}

\* the keys of every table of the tree are pairwise distinct
RECURSIVE DistinctKeys(_)
DistinctKeys(v) ==
    IF v.tag = "dict"
    THEN /\ \A m, n \in 1..Len(v.val) : v.val[m].k = v.val[n].k => m = n
         /\ \A n \in 1..Len(v.val) : DistinctKeys(v.val[n].v)
    ELSE IF v.tag = "list" THEN \A n \in 1..Len(v.val) : DistinctKeys(v.val[n])
    ELSE TRUE

\* every binding of tree a is in tree b: a scalar with its value, a table as
\* a table, an array as an array with its elements in their places
RECURSIVE Kept(_, _)
Kept(a, b) ==
    /\ a.tag = b.tag
    /\ IF a.tag = "dict"
       THEN \A n \in 1..Len(a.val) :
               /\ HasKey(b, a.val[n].k)
               /\ Kept(a.val[n].v, DictGet(b, a.val[n].k))
       ELSE IF a.tag = "list"
       THEN /\ Len(a.val) <= Len(b.val)
            /\ \A n \in 1..Len(a.val) : Kept(a.val[n], b.val[n])
       ELSE a.val = b.val

\* an inline-table literal with well-formed values that writes one key twice
RepeatsKey(lit) ==
    /\ lit.tag = "itable"
    /\ \A n \in 1..Len(lit.val) : parse_value(lit.val[n].v).st = "ok"
    /\ \E m, n \in 1..Len(lit.val) : m < n /\ lit.val[m].kl = lit.val[n].kl

C4_Step ==
    /\ DistinctKeys(rv')
    /\ Kept(rv, rv')
    /\ (ReadPair /\ FullyBound) => status' = "TOMLDecodeError"
    /\ (ReadPair /\ status' = "running") => ~Exists(rv, bound')
    /\ (Read /\ ReadKind = "pair" /\ RepeatsKey(last'.stmt.v)) => status' = "TOMLDecodeError"

\* C4: a pair whose terminal key is already bound in its target table, and
\* an inline table that repeats a key, is a decode error; no step rebinds a
\* key, so the keys of every table stay pairwise distinct and each keeps the
\* first value bound to it.
C4_KeyUniqueness == [][C4_Step]_vars

\* C4: a pair was refused because its key was bound already
C4_Refused ==
    /\ status = "TOMLDecodeError" /\ msg = "Key is repeated"
    /\ last.stmt.kind = "pair" /\ nstmts >= 2

\* the path of a header runs through tables only
ThroughTables == FullyBound /\ \A j \in 1..Len(ReadKeys) : GetAt(rv, ReadTrace[j]).tag = "dict"

C5_Step ==
    /\ (Read /\ ReadKind = "table" /\ last'.nl >= 1 /\ FullyBound /\ Terminal \in headed)
          => /\ status' = "TOMLDecodeError"
             /\ msg' = "duplicated table"
             /\ line' = line + last'.nl
    /\ (Read /\ ReadKind = "table" /\ Separated /\ ThroughTables /\ Terminal \notin headed)
          => /\ status' = "running"
             /\ cur_target' = Terminal
             /\ Same(rv', rv)

\* C5: a [p] header naming a table that an earlier [p] header named is the
\* decode error "duplicated table" on the line of the second header; a [p]
\* header naming a table that exists and that no [p] header named (as [a]
\* after [a.b]) is accepted and takes the table as it is.
C5_TableRedefinition == [][C5_Step]_vars

\* C5: the second header of a table was refused
C5_Duplicated ==
    /\ status = "TOMLDecodeError" /\ msg = "duplicated table"
    /\ last.stmt.kind = "table" /\ line = nstmts

\* a tree of the kinds the round trip is stated for: tables with str keys,
\* strings, integers, booleans, dates, arrays
RECURSIVE PlainTree(_)
PlainTree(v) ==
    IF v.tag = "dict"
    THEN \A n \in 1..Len(v.val) : IsStrKey(v.val[n].k) /\ PlainTree(v.val[n].v)
    ELSE IF v.tag = "list" THEN \A n \in 1..Len(v.val) : PlainTree(v.val[n])
    ELSE v.tag \in {"str", "int", "bool", "date"}

\* C1: for every tree obj of tables with str keys, strings, integers,
\* booleans, dates and arrays that dumps accepts, loads of the text dumps
\* returned raises nothing and returns a tree equal to obj, the keys of a
\* table compared in any order.
C1_RoundTrip ==
    (enc = "ok" /\ PlainTree(obj)) =>
        /\ status \in {"running", "returned"}
        /\ status = "returned" => Same(rv, obj)

\* C3: dumps returns text or raises TOMLEncodeError; a value of a type it
\* does not encode and a dict with a key that is no str, anywhere in the
\* tree, raise TOMLEncodeError and no other exception.
C3_EncodeErrorOnly == enc \in {"init", "ok", "TOMLEncodeError"}

\* the elements of every array of scalars of the tree have one tag
RECURSIVE Homogeneous(_)
Homogeneous(v) ==
    IF v.tag = "dict" THEN \A n \in 1..Len(v.val) : Homogeneous(v.val[n].v)
    ELSE IF v.tag = "list"
    THEN /\ \A n \in 1..Len(v.val) : Homogeneous(v.val[n])
         /\ (\A n \in 1..Len(v.val) : IsScalar(v.val[n]))
               => \A m, n \in 1..Len(v.val) : v.val[m].tag = v.val[n].tag
    ELSE TRUE

\* C6: an array literal whose elements differ in tag is refused, so in the
\* tree loads builds every array of scalars has elements of one tag.
C6_Homogeneity == status \in {"running", "returned"} => Homogeneous(rv)

\* the path of the statement read ends at, or passes through, an array that a
\* pair bound to an array literal
EndsAtLiteral == FullyBound /\ Terminal \in literal_arrays
ThroughLiteral ==
    \E j \in 1..Len(ReadTrace) : j < Len(ReadKeys) /\ ReadTrace[j] \in literal_arrays

C7_Headers ==
    /\ (Read /\ ReadKind = "tarray" /\ EndsAtLiteral) => status' = "TOMLDecodeError"
    /\ (ReadHeader /\ ThroughLiteral) => status' = "TOMLDecodeError"
    /\ ReadHeader => \A loc \in literal_arrays : Same(GetAt(rv', loc), GetAt(rv, loc))

\* the part of C7 that is about headers alone: a [[p]] header whose path
\* ends at an array bound to an array literal, and a header whose path
\* passes through one, is a decode error, and no header changes such an array
C7_HeadersRefused == [][C7_Headers]_vars

C7_Step ==
    /\ C7_Headers
    /\ \A loc \in literal_arrays : Same(GetAt(rv', loc), GetAt(rv, loc))

\* C7: once a pair has bound a key to an array literal, every later [[p]]
\* header whose path ends at that array and every later header whose path
\* passes through it is a decode error, and the array keeps exactly the
\* elements of its literal.
C7_ExtensionRejection == [][C7_Step]_vars

\* C8: once a pair has bound a key to an inline table, no later header names
\* that table and no later header or dotted pair adds a key to it: the table
\* keeps exactly the keys written between its braces.
C8_Sealed ==
    \A s \in sealed :
        /\ s.loc \notin headed
        /\ KeysOf(GetAt(rv, s.loc)) = s.keys

\* a segment before the last of the path is bound to a scalar
ScalarOnPath ==
    /\ ReadTrace # <<>> /\ Len(ReadTrace) < Len(ReadKeys)
    /\ IsScalar(GetAt(rv, ReadTrace[Len(ReadTrace)]))

C9_Step ==
    (\/ (ReadHeader \/ ReadPair) /\ ScalarOnPath
     \/ Read /\ ReadKind = "table" /\ FullyBound /\ GetAt(rv, Terminal).tag # "dict"
     \/ Read /\ ReadKind = "tarray" /\ FullyBound /\ GetAt(rv, Terminal).tag # "list")
    => /\ status' = "TOMLDecodeError"
       /\ Same(rv', rv)

\* C9: a [p] header, a [[p]] header or a dotted pair (its value well formed)
\* is a decode error when a segment before the last of its path is bound to
\* a scalar, when the last segment of a [p] header is bound to anything but
\* a table, or when the last segment of a [[p]] header is bound to anything
\* but an array; the tree is then as it was before the statement.
C9_OnlyTablesExtended == [][C9_Step]_vars

\* C9: a header or dotted key was refused since its path ran into a value
\* that is no table
C9_Refused ==
    /\ status = "TOMLDecodeError" /\ msg = "repeated key in keylist"
    /\ nstmts >= 2

\* the step accepts the statement it reads
Accepted == Read /\ status' = "running"
\* the array a [[p]] header names, before and after the header
Named == GetAt(rv, Terminal).val
NamedAfter == GetAt(rv', Append(Front(cur_target'), Step(Last(cur_target').k, 0))).val

C10_Step ==
    /\ toplevel_targets = {} => cur_target = <<>>
    /\ (Accepted /\ ReadKind = "pair") =>
          /\ cur_target' = cur_target
          /\ IsPrefix(cur_target, bound')
          /\ PathKeys(SubSeq(bound', Len(cur_target) + 1, Len(bound'))) = ReadKeys
          /\ Same(GetAt(rv', bound'), parse_value(last'.stmt.v).val)
          /\ Same(SetAt(rv', cur_target, EmptyDict), SetAt(rv, cur_target, EmptyDict))
    /\ (Accepted /\ ReadKind = "table") =>
          /\ PathKeys(cur_target') = ReadKeys
          /\ GetAt(rv', cur_target').tag = "dict"
    /\ (Accepted /\ ReadKind = "tarray") =>
          /\ PathKeys(cur_target') = ReadKeys
          /\ Last(cur_target').i = Len(NamedAfter)
          /\ Same(GetAt(rv', cur_target'), EmptyDict)
          /\ Len(NamedAfter) = IF FullyBound THEN Len(Named) + 1 ELSE 1
          /\ FullyBound => \A n \in 1..Len(Named) : Same(NamedAfter[n], Named[n])
          /\ Kept(rv, rv')

\* C10: a pair binds its keys under the table the last header named, the
\* root before any header, and changes nothing outside that table; a [[p]]
\* header adds exactly one empty table at the end of the array at p, leaves
\* the earlier elements as they were and makes the new element the target.
C10_Scoping == [][C10_Step]_vars

\* C10: after two [[a]] headers a pair was bound in the second element
C10_NewestElement ==
    /\ status = "running" /\ last.stmt.kind = "pair"
    /\ Len(bound) = 2 /\ bound[1].i = 2

\* C7: a [[p]] header was refused at an array bound to an array literal
C7_Refused ==
    /\ status = "TOMLDecodeError" /\ msg = "appended to statically defined array"
    /\ last.stmt.kind = "tarray"

C11_Step ==
    /\ (Read /\ ~first /\ last'.nl = 0)
          => /\ status' = "TOMLDecodeError"
             /\ msg' = "Didn't find expected newline"
             /\ Same(rv', rv)
    /\ (Read /\ (first \/ last'.nl >= 1)) => msg' # "Didn't find expected newline"

\* C11: a statement that is not the first and has no newline between the end
\* of the statement before it and its own start is a decode error, the
\* newlines inside the value before it counting for nothing; the first
\* statement, and a statement after a newline, is not refused for that.
C11_Separation == [][C11_Step]_vars

\* C11: the second statement was refused for want of a newline after a first
\* statement whose value, a multi-line string, held the only newline read
C11_Unseparated ==
    /\ status = "TOMLDecodeError" /\ msg = "Didn't find expected newline"
    /\ nstmts = 2 /\ last.nl = 0 /\ line = 2
    /\ HasKey(rv, KA) /\ DictGet(rv, KA).tag = "str"

\* the tree holds a None: as a table value, an array element, or below one
RECURSIVE HasNone(_)
HasNone(v) ==
    IF v.tag = "dict" THEN \E n \in 1..Len(v.val) : HasNone(v.val[n].v)
    ELSE IF v.tag \in {"list", "tuple"} THEN \E n \in 1..Len(v.val) : HasNone(v.val[n])
    ELSE v.tag = "none"

\* the tree with s in the place of every None
RECURSIVE Subst(_, _)
Subst(v, s) ==
    IF v.tag = "dict"
    THEN VDict([n \in 1..Len(v.val) |-> Item(v.val[n].k, Subst(v.val[n].v, s))])
    ELSE IF v.tag = "list" THEN VList([n \in 1..Len(v.val) |-> Subst(v.val[n], s)])
    ELSE IF v.tag = "none" THEN s
    ELSE v

\* C12: with encode_none unset, dumps of a tree that holds a None anywhere
\* raises TOMLEncodeError; with encode_none = s, dumps of a tree that holds a
\* None among strings, integers, booleans, dates, arrays and tables returns
\* text, and what loads returns for that text has s in the place of every None.
C12_NoneHandling ==
    /\ (encoder.encode_none.tag = "none" /\ HasNone(obj))
          => enc \in {"init", "TOMLEncodeError"}
    /\ (encoder.encode_none.tag # "none" /\ HasNone(obj)
            /\ PlainTree(Subst(obj, encoder.encode_none)))
          => /\ enc \in {"init", "ok"}
             /\ status = "returned" => Same(rv, Subst(obj, encoder.encode_none))

\* C12, the part about a configured substitute alone
C12_Substituted ==
    (encoder.encode_none.tag # "none" /\ HasNone(obj)
        /\ PlainTree(Subst(obj, encoder.encode_none)))
    => /\ enc \in {"init", "ok"}
       /\ status = "returned" => Same(rv, Subst(obj, encoder.encode_none))

\* the header in force at statement i of text, and the path of keys that
\* statement i writes: the keys of a header, the header in force and the keys
\* of a pair
RECURSIVE Section(_)
Section(i) ==
    IF i = 0 THEN <<>>
    ELSE IF text[i].kind \in {"table", "tarray"} THEN text[i].kl
    ELSE Section(i - 1)
TextPath(i) == IF text[i].kind = "pair" THEN Section(i - 1) \o text[i].kl ELSE text[i].kl

\* the keys that the statements of text, from statement i on, write directly
\* under the path P, in the order of the text, a run of statements under one
\* key counted once
RECURSIVE EmittedFrom(_, _, _)
EmittedFrom(P, i, acc) ==
    IF i > Len(text) THEN acc
    ELSE IF /\ text[i].kind # "nl"
            /\ Len(TextPath(i)) > Len(P) /\ SubSeq(TextPath(i), 1, Len(P)) = P
            /\ (acc = <<>> \/ acc[Len(acc)] # TextPath(i)[Len(P) + 1])
    THEN EmittedFrom(P, i + 1, Append(acc, TextPath(i)[Len(P) + 1]))
    ELSE EmittedFrom(P, i + 1, acc)

\* the tables of the tree that are reached through tables: their key paths
RECURSIVE TablePaths(_, _)
TablePaths(v, P) ==
    {P} \cup UNION {TablePaths(v.val[n].v, Append(P, v.val[n].k)) :
                      n \in {m \in 1..Len(v.val) : v.val[m].v.tag = "dict"}}
TableAt(P) == GetAt(obj, [j \in 1..Len(P) |-> Step(P[j], 0)])
Dumped(P) == [j \in 1..Len(P) |-> dump_key(P[j]).out]

\* the group of an encodable value e: 1 scalar-like, 2 table, 3 table array,
\* 0 none of them
GroupOf(e) ==
    IF is_scalar(encoder, e, TRUE).val THEN 1
    ELSE IF e.tag = "dict" THEN 2
    ELSE IF e.tag = "list" THEN 3
    ELSE 0
Group(v) == GroupOf(_get_encodable_object(encoder, v).val)

\* the dumped keys of the items of group g, from item n on, in insertion order
RECURSIVE KeysOfGroup(_, _, _)
KeysOfGroup(items, g, n) ==
    IF n > Len(items) THEN <<>>
    ELSE (IF Group(items[n].v) = g THEN <<dump_key(items[n].k).out>> ELSE <<>>)
         \o KeysOfGroup(items, g, n + 1)
Expected(tbl) ==
    KeysOfGroup(tbl.val, 1, 1) \o KeysOfGroup(tbl.val, 2, 1) \o KeysOfGroup(tbl.val, 3, 1)

\* a tree of tables with str keys, strings, integers, booleans, dates, arrays
\* and tuples
RECURSIVE PlainOrTuple(_)
PlainOrTuple(v) ==
    IF v.tag = "dict"
    THEN \A n \in 1..Len(v.val) : IsStrKey(v.val[n].k) /\ PlainOrTuple(v.val[n].v)
    ELSE IF v.tag \in {"list", "tuple"} THEN \A n \in 1..Len(v.val) : PlainOrTuple(v.val[n])
    ELSE v.tag \in {"str", "int", "bool", "date"}

\* the dotted paths of the keys of the tables of obj that are in no group
Ungrouped ==
    UNION {{dotted(Append(P, TableAt(P).val[n].k)) :
              n \in {m \in 1..Len(TableAt(P).val) : Group(TableAt(P).val[m].v) = 0}} :
           P \in TablePaths(obj, <<>>)}

\* C13: in the text dumps returns, the keys of every table come in three
\* runs, the scalar-like keys in insertion order, then the tables in insertion
\* order, then the table arrays in insertion order, each key once; and dumps
\* of a tree with a key in none of the three groups raises TOMLEncodeError
\* with the dotted path of such a key in its message.
C13_SectionOrder ==
    /\ enc = "ok" =>
          \A P \in TablePaths(obj, <<>>) : EmittedFrom(Dumped(P), 1, <<>>) = Expected(TableAt(P))
    /\ (enc # "init" /\ PlainOrTuple(obj) /\ Ungrouped # {}) =>
          /\ enc = "TOMLEncodeError"
          /\ emsg \in Ungrouped

\* C13: dumps returned the text of a table whose keys are, in insertion
\* order, a table array, a table and a scalar
C13_Reordered ==
    /\ enc = "ok" /\ Len(obj.val) = 3
    /\ Group(obj.val[1].v) = 3 /\ Group(obj.val[2].v) = 2 /\ Group(obj.val[3].v) = 1

\* C13: dumps raised for a key in none of the three groups, below a table
C13_Named ==
    /\ enc = "TOMLEncodeError" /\ Len(emsg) > 1 /\ emsg \in Ungrouped

\* the tree with every value of the foreign type replaced by the str that
\* the default() of PathEncoder maps it to
RECURSIVE Defaulted(_)
Defaulted(v) ==
    IF v.tag = "dict"
    THEN VDict([n \in 1..Len(v.val) |-> Item(v.val[n].k, Defaulted(v.val[n].v))])
    ELSE IF v.tag \in {"list", "tuple"}
    THEN [v EXCEPT !.val = [n \in 1..Len(v.val) |-> Defaulted(v.val[n])]]
    ELSE IF v.tag = "path" THEN VStr(v.val)
    ELSE v

RECURSIVE HasPath(_)
HasPath(v) ==
    IF v.tag = "dict" THEN \E n \in 1..Len(v.val) : HasPath(v.val[n].v)
    ELSE IF v.tag \in {"list", "tuple"} THEN \E n \in 1..Len(v.val) : HasPath(v.val[n])
    ELSE v.tag = "path"

\* dumps of the tree, by the encoder of the state, after the replacement
DumpsDefaulted == dumps(Defaulted(obj), encoder)

\* C14: with an encoder whose default() maps a foreign value to a str, dumps
\* of a tree that holds the foreign value anywhere (a table value, an array
\* element, a value of an inline table) returns the text it returns for the
\* tree with the str in its place.
C14_Hook ==
    (encoder.hook /\ enc # "init" /\ HasPath(obj) /\ DumpsDefaulted.st = "ok")
    => (enc = "ok" /\ text = DumpsDefaulted.out)

\* C14, for the foreign values that are values of tables written as sections
RECURSIVE PathInTables(_)
PathInTables(v) ==
    IF v.tag = "dict" THEN \A n \in 1..Len(v.val) : PathInTables(v.val[n].v)
    ELSE IF v.tag = "list"
    THEN /\ \A n \in 1..Len(v.val) : v.val[n].tag = "dict" /\ PathInTables(v.val[n])
         /\ v.val # <<>>
    ELSE TRUE
C14_HookOnTableValues ==
    (encoder.hook /\ enc # "init" /\ HasPath(obj) /\ PathInTables(obj)
        /\ DumpsDefaulted.st = "ok")
    => (enc = "ok" /\ text = DumpsDefaulted.out)

\* the tree is the one pair {a: s} or {s: MaxInt} of a str s
OfStr(v) == v.tag = "dict" /\ Len(v.val) = 1 /\ IsStrKey(v.val[1].k)

\* C15: the literal dump_str writes for a str value and dump_key for a key,
\* the str over an alphabet with control characters, U+007F, newline, both
\* quotes and the backslash, holds no character the string parser refuses as
\* an unescaped control character, is accepted by the parser, and is read
\* back as the str itself.
C15_Decodable ==
    enc = "ok" =>
        /\ \A i \in 1..Len(text) : text[i] \notin control_chars
        /\ status \in {"running", "returned"}
        /\ status = "returned" => Same(rv, obj)

\* C15 for the strings without U+007F
RECURSIVE HasDEL(_)
HasDEL(v) ==
    IF v.tag = "dict" THEN \E n \in 1..Len(v.val) : DEL \in Range(v.val[n].k) \/ HasDEL(v.val[n].v)
    ELSE IF v.tag = "str" THEN DEL \in Range(v.val)
    ELSE FALSE
C15_DecodableWithoutDEL ==
    (enc # "init" /\ ~HasDEL(obj)) =>
        /\ enc = "ok"
        /\ \A i \in 1..Len(text) : text[i] \notin control_chars
        /\ status \in {"running", "returned"}
        /\ status = "returned" => Same(rv, obj)

\* ------------------------------------------------------------------- C16
\* C16: when TomlDict has parsed a document, the string of its tree is the
\* document, character for character.
C16_FormatPreserved ==
    (pc = "done" /\ status = "returned") =>
        /\ string(data).st = "ok"
        /\ string(data).val = text

\* the part of C16 the code keeps: a document of white space alone, or one
\* whose comments end with the document, is given back as it was
NoPair == \A i \in 1..Len(data) : data[i].cls # "DataPair"
OpenComments ==
    \A i \in 1..Len(text) : text[i] = 35 => ~Contains(Slice(text, i, Len(text)), <<NL>>)
C16_BlankPreserved ==
    (pc = "done" /\ status = "returned" /\ NoPair /\ OpenComments) =>
        /\ string(data).st = "ok"
        /\ string(data).val = text

\* ------------------------------------------------------------------- C17
\* C17: the call returns or raises after finitely many scanner calls.
C17_Terminates == <>(pc = "done")

\* the part of C17 the code keeps: a string that opens with one quote character
\* is searched in finitely many scanner calls
C17_OneQuoteTerminates == <>(pc = "done" \/ Len(Kind.delim) = 3)

\* ------------------------------------------------------------------- C18
\* the characters of the consumed prefix text[0:index] up to its last newline,
\* that newline included
LineStart ==
    IF \E i \in 1..p.index : text[i] = NL
    THEN CHOOSE i \in 1..p.index : text[i] = NL /\ \A j \in (i + 1)..p.index : text[j] # NL
    ELSE 0

\* C18: after any sequence of scanner calls the index is inside the input, line
\* is 1 plus the newlines of the consumed prefix, and col is the number of
\* characters after the last newline of that prefix.
C18_Position ==
    /\ 0 <= p.index /\ p.index <= Len(text)
    /\ p.line = 1 + Cardinality({i \in 1..p.index : text[i] = NL})
    /\ p.col = p.index - LineStart

\* backtrack has gone back over a newline into the line before it
C18_BacktrackedOverNewline ==
    /\ pc = "backtrack"
    /\ p.line = 2 /\ p.col = 1
    /\ p.index < Len(text) /\ text[p.index + 1] = NL

\* ------------------------------------------------------------------- C19
\* the text a"-escaped quote-in-three-quotes: """a\""""
EscapedQuote == <<DQ, DQ, DQ, Ch_a, BSL, DQ, DQ, DQ, DQ>>

\* the backslashes that stand one after another right before text[i + 1]
BackslashesBefore(i) ==
    CHOOSE k \in 0..i :
        /\ \A j \in 1..k : text[i - j + 1] = BSL
        /\ k = i \/ text[i - k] # BSL

\* the length of the delimiter the text opens with
Quotes == IF Len(text) >= 3 /\ text[2] = text[1] /\ text[3] = text[1] THEN 3 ELSE 1

\* the scanner stands right after a candidate closing delimiter
Candidate ==
    /\ pc = "found"
    /\ p.index >= 2 * Quotes
    /\ \A i \in 1..Quotes : text[p.index - i + 1] = text[1]

C19_Step ==
    /\ Candidate =>
          IF text[1] = DQ /\ BackslashesBefore(p.index - Quotes) % 2 = 1
          THEN /\ pc' # "closed"
               /\ pc' = "until" => p'.index = p.index - (Quotes - 1)
          ELSE /\ pc' = "closed" /\ p' = p
    /\ (Candidate /\ text[1] = SQ) =>
          \A i \in Quotes..(p.index - Quotes - 1) :
              \E j \in 1..Quotes : text[i + j] # SQ
    /\ (text = EscapedQuote /\ pc' = "done") => (status' = "returned" /\ sv' = <<Ch_a, DQ>>)

\* C19: in a basic string a candidate closing delimiter after an odd number of
\* backslashes does not end the string and one after an even number does; after
\* an escaped candidate the search resumes len(delim)-1 characters back, so
\* """a\"""" is the string a"; a literal string ends at the first occurrence
\* of its delimiter.
C19_ClosingDelimiter == [][C19_Step]_vars

\* the three-quote string with an escaped quote before its end was read
C19_EscapedQuoteRead ==
    pc = "done" /\ text = EscapedQuote /\ status = "returned" /\ sv = <<Ch_a, DQ>>

\* ------------------------------------------------------------------- C20
IsHex(c) == c \in (48..57) \cup (65..70) \cup (97..102)

HexValue(h) ==
    LET F[i \in 0..Len(h)] == IF i = 0 THEN 0 ELSE 16 * F[i - 1] + DigitVal(h[i])
    IN  F[Len(h)]

Scalar(v) == v <= 1114111 /\ ~(v >= 55296 /\ v <= 57343)

\* text is one \u or \U escape between double quotes
OneEscape == Len(text) >= 4 /\ text[1] = DQ /\ text[2] = BSL /\ text[3] \in {Ch_u, Ch_U}
HexPart == Slice(text, 3, Len(text) - 1)
Width == IF text[3] = Ch_u THEN 4 ELSE 8

\* C20: the escape is accepted only with exactly 4 (8) hexadecimal digits that
\* name a Unicode scalar value, and is then replaced by that code point; any
\* other escape is a decode error.
C20_UnicodeEscapes ==
    (pc = "done" /\ OneEscape) =>
        /\ status = "returned" <=>
              /\ Len(HexPart) = Width
              /\ \A i \in 1..Len(HexPart) : IsHex(HexPart[i])
              /\ Scalar(HexValue(HexPart))
        /\ status = "returned" => sv = <<HexValue(HexPart)>>
        /\ status # "returned" => status = "TOMLDecodeError"

\* the part of C20 the code keeps: escapes written with hexadecimal digits
\* alone, U+D800 left aside
C20_HexDigitEscapes ==
    (pc = "done" /\ OneEscape /\ (\A i \in 1..Len(HexPart) : IsHex(HexPart[i]))
       /\ HexValue(HexPart) # 55296) =>
        /\ status = "returned" <=> (Len(HexPart) = Width /\ Scalar(HexValue(HexPart)))
        /\ status = "returned" => sv = <<HexValue(HexPart)>>
        /\ status # "returned" => status = "TOMLDecodeError"

\* ------------------------------------------------------------------- C22
C22_Step ==
    (ReadPair /\ ThroughLiteral) =>
        /\ status' = "TOMLDecodeError"
        /\ \A loc \in literal_arrays : Same(GetAt(rv', loc), GetAt(rv, loc))

\* C22: once a pair has bound a key to an array literal, a later pair whose
\* dotted key passes through that key is a decode error and leaves the array
\* and its elements as they were.
C22_DottedThroughArray == [][C22_Step]_vars
\* ------------------------------------------------------------------- C21
\* b is digits of the base with underscores only between two digits
DigitsOf(b, base) ==
    /\ Len(b) > 0
    /\ \A i \in 1..Len(b) :
          \/ IsDigitOf(b[i], base)
          \/ /\ b[i] = Ch_us /\ i > 1 /\ i < Len(b)
             /\ IsDigitOf(b[i - 1], base) /\ IsDigitOf(b[i + 1], base)

Signed(t) == Len(t) > 0 /\ t[1] \in {Ch_plus, Ch_minus}
Unsigned(t) == IF Signed(t) THEN Tail(t) ELSE t
Prefixed(t) == Len(t) >= 2 /\ t[1] = Ch_0 /\ t[2] \in {120, 111, 98}
PrefixBase(t) == CASE t[2] = 120 -> 16 [] t[2] = 111 -> 8 [] OTHER -> 2

\* the tokens the grammar of integers admits
IntegerToken(t) ==
    \/ /\ DigitsOf(Unsigned(t), 10)
       /\ (Len(Unsigned(t)) = 1 \/ Unsigned(t)[1] # Ch_0)
    \/ /\ Prefixed(t)
       /\ DigitsOf(Slice(t, 2, Len(t)), PrefixBase(t))

\* the value of the digits of an admitted token in its base
IntegerValue(t) ==
    IF Prefixed(t) THEN DigitsValue(Slice(t, 2, Len(t)), PrefixBase(t), 0)
    ELSE IF t[1] = Ch_minus THEN 0 - DigitsValue(Tail(t), 10, 0)
    ELSE DigitsValue(Unsigned(t), 10, 0)

\* C21: a token read as an integer is one the grammar of integers admits
\* (signed decimal without leading zero, or one 0x / 0o / 0b prefix and digits
\* of that base, underscores only between two digits) and its value is that of
\* its digits in the base; every other token is a decode error.
C21_IntegerGrammar ==
    pc = "done" =>
        IF status = "returned"
        THEN /\ IntegerToken(text)
             /\ rv.val[1].v = VInt(IntegerValue(text))
        ELSE status = "TOMLDecodeError"

\* C21, the other direction: every token the grammar admits is read as an
\* integer with the value of its digits
C21_Admitted ==
    (pc = "done" /\ IntegerToken(text)) =>
        status = "returned" /\ rv.val[1].v = VInt(IntegerValue(text))
\* ------------------------------------------------------------------- C23
\* the body of the closed string text, and the body once the newline that
\* directly follows the opening of a multi-line string is dropped
Body == Slice(text, Len(Kind.delim), Len(text) - Len(Kind.delim))
Trimmed(b) == IF Len(b) > 0 /\ b[1] = NL THEN Tail(b) ELSE b

\* a backslash at b[i] followed by optional spaces and tabs and a newline
ContAt(b, i) ==
    /\ b[i] = BSL
    /\ \E j \in (i + 1)..Len(b) :
          b[j] = NL /\ \A k \in (i + 1)..(j - 1) : b[k] \in {SPC, TAB}
HasCont(b) == \E i \in 1..Len(b) : ContAt(b, i)
OnlyCont(b) == \A i \in 1..Len(b) : b[i] = BSL => ContAt(b, i)

\* the least index from i on that holds no space, tab or newline
RECURSIVE SkipWs(_, _)
SkipWs(b, i) ==
    IF i <= Len(b) /\ b[i] \in {SPC, TAB, NL} THEN SkipWs(b, i + 1) ELSE i

\* b from index i on with every line continuation, and the white space that
\* follows it, removed
RECURSIVE JoinFrom(_, _)
JoinFrom(b, i) ==
    IF i > Len(b) THEN <<>>
    ELSE IF ContAt(b, i) THEN JoinFrom(b, SkipWs(b, i + 1))
    ELSE <<b[i]>> \o JoinFrom(b, i + 1)

MultiLine == Len(Kind.delim) = 3
IsBasic == Kind.delim[1] = DQ

\* multi-line basic: the continuations are removed; single-line basic: error
C23_Basic ==
    /\ (IsBasic /\ MultiLine /\ OnlyCont(Trimmed(Body))) =>
           status = "returned" /\ sv = JoinFrom(Trimmed(Body), 1)
    /\ (IsBasic /\ ~MultiLine /\ HasCont(Body)) => status = "TOMLDecodeError"

\* C23 as stated: in a multi-line basic string a line continuation and the
\* white space after it add nothing to the value, in a single-line basic string
\* it is a decode error, and in a literal string (of either kind) it is kept
\* verbatim.
C23_LineContinuation ==
    (pc = "done" /\ HasCont(Body)) =>
        /\ C23_Basic
        /\ ~IsBasic => status = "returned" /\ sv = Trimmed(Body)

\* C23 amended: as stated for basic strings; a multi-line literal string keeps
\* the sequence verbatim, and a single-line literal string that holds it is a
\* decode error, as it holds a newline.
C23_LineContinuationAmended ==
    (pc = "done" /\ HasCont(Body)) =>
        /\ C23_Basic
        /\ (~IsBasic /\ MultiLine) => status = "returned" /\ sv = Trimmed(Body)
        /\ (~IsBasic /\ ~MultiLine) => status = "TOMLDecodeError"

\* scenario 6 was read: the multi-line basic string decodes to foo
C23_FooRead ==
    /\ pc = "done" /\ text = <<DQ, DQ, DQ>> \o FooBody \o <<DQ, DQ, DQ>>
    /\ status = "returned" /\ sv = <<102, 111, 111>>
\* ------------------------------------------------------------------- C24
\* the header lines of the text, in its order: kind and keys
RECURSIVE HeadersFrom(_)
HeadersFrom(i) ==
    IF i > Len(text) THEN <<>>
    ELSE (IF text[i].kind \in {"table", "tarray"} THEN <<<<text[i].kind, text[i].kl>>>> ELSE <<>>)
         \o HeadersFrom(i + 1)

\* the table tbl at path P has a header line
Headed(tbl, P, tarray) ==
    /\ P # <<>>
    /\ \/ \E n \in 1..Len(tbl.val) : Group(tbl.val[n].v) = 1
       \/ tarray
       \/ Len(tbl.val) = 0

\* the header lines the tables of the tree are to have: that of the table tbl
\* at path P, then those of its tables, then those of the elements of its
\* table arrays
RECURSIVE HeadersOf(_, _, _)
RECURSIVE HeadersOfTables(_, _, _)
RECURSIVE HeadersOfArrays(_, _, _)
RECURSIVE HeadersOfElements(_, _, _)
HeadersOf(tbl, P, tarray) ==
    (IF Headed(tbl, P, tarray)
     THEN <<<<IF tarray THEN "tarray" ELSE "table", P>>>> ELSE <<>>)
    \o HeadersOfTables(tbl.val, P, 1) \o HeadersOfArrays(tbl.val, P, 1)

HeadersOfTables(items, P, n) ==
    IF n > Len(items) THEN <<>>
    ELSE (IF Group(items[n].v) = 2
          THEN HeadersOf(_get_encodable_object(encoder, items[n].v).val,
                         Append(P, dump_key(items[n].k).out), FALSE)
          ELSE <<>>)
         \o HeadersOfTables(items, P, n + 1)

HeadersOfElements(ents, P, m) ==
    IF m > Len(ents) THEN <<>>
    ELSE HeadersOf(ents[m], P, TRUE) \o HeadersOfElements(ents, P, m + 1)

HeadersOfArrays(items, P, n) ==
    IF n > Len(items) THEN <<>>
    ELSE (IF Group(items[n].v) = 3
          THEN HeadersOfElements(_get_encodable_object(encoder, items[n].v).val.val,
                                 Append(P, dump_key(items[n].k).out), 1)
          ELSE <<>>)
         \o HeadersOfArrays(items, P, n + 1)

\* C24: the text dumps returns has a header line for a table at path P, [P] or
\* [[P]] for an element of a table array, exactly when P is not the root and
\* the table has a scalar-like value, or is an element of a table array, or is
\* empty; the root has none, and a table of tables and table arrays alone has
\* none.
C24_HeaderEmission ==
    enc = "ok" =>
        HeadersFrom(1) = HeadersOf(_get_encodable_object(encoder, obj).val, <<>>, FALSE)

\* C24: dumps returned the text of {a: {b: {}}}: the table a holds a table
\* alone and has no header, the empty table a.b has one
C24_NestedOnly ==
    /\ enc = "ok"
    /\ Same(obj, VDict(<<Item(KA, VDict(<<Item(KB, EmptyDict)>>))>>))
    /\ HeadersFrom(1) = <<<<"table", <<KA, KB>>>>>>

\* C24: dumps returned a text with the header [[a]] of two elements of a
\* table array and the header [c] of a table with a scalar
C24_ArrayElements ==
    /\ enc = "ok"
    /\ Len(HeadersFrom(1)) >= 3
    /\ HeadersFrom(1)[1] = <<"table", <<<<99>>>>>>
    /\ HeadersFrom(1)[Len(HeadersFrom(1))] = <<"tarray", <<KA>>>>
\* ------------------------------------------------------------------- C25
\* the str that is written: the value of the pair, or its key
Written_s == IF obj.val[1].v.tag = "str" THEN obj.val[1].v.val ELSE obj.val[1].k

\* the delimiter of the literal out that opens with a single quote
LiteralDelim(out) ==
    IF Len(out) >= 6 /\ startswith(out, <<SQ, SQ, SQ>>) THEN <<SQ, SQ, SQ>> ELSE <<SQ>>

\* the encoder returned r for s: it did not raise, and a literal in literal form
\* is s between delimiters that s does not hold
LiteralSafe(s, r) ==
    /\ r.st = "ok"
    /\ r.out[1] = SQ =>
          /\ ~Contains(s, LiteralDelim(r.out))
          /\ r.out = LiteralDelim(r.out) \o s \o LiteralDelim(r.out)

\* C25: for every str and both settings of multiline_allowed, dump_str chooses
\* the literal form only for a str that does not hold the delimiter of that
\* form, so that neither dump_str nor dump_key raises "raw string delimiter in
\* raw string".
C25_LiteralSafe ==
    enc # "init" =>
        /\ enc = "ok"
        /\ \A ma \in BOOLEAN : LiteralSafe(Written_s, dump_str(Written_s, ma))
        /\ dump_key(Written_s).st = "ok"
        /\ dump_key(Written_s).out[1] = SQ => LiteralSafe(Written_s, dump_key(Written_s))

\* C25: a str with a single quote and a newline was written in the multi-line
\* literal form
C25_QuoteInLiteral ==
    /\ enc = "ok" /\ obj.val[1].v.tag = "str"
    /\ Written_s = <<SQ, NL, Ch_a>>
    /\ text = <<SQ, SQ, SQ, SQ, NL, Ch_a, SQ, SQ, SQ>>
\* C25: a str with the multi-line delimiter after a newline was written in the
\* basic form
C25_TripleInBasic ==
    /\ enc = "ok" /\ obj.val[1].v.tag = "str"
    /\ Written_s = <<Ch_a, NL, SQ, SQ, SQ>>
    /\ text[1] = DQ
\* ------------------------------------------------------------------- C26
\* the tree new holds all that the tree old holds: every key of a table of old
\* is a key of the same table of new, every element of an array of old is at
\* its position in the array of new, and every scalar of old is in its place
RECURSIVE Grown(_, _)
Grown(old, new) ==
    IF old.tag = "dict"
    THEN /\ new.tag = "dict"
         /\ \A n \in 1..Len(old.val) :
               /\ HasKey(new, old.val[n].k)
               /\ Grown(old.val[n].v, DictGet(new, old.val[n].k))
    ELSE IF old.tag = "list"
    THEN /\ new.tag = "list"
         /\ Len(new.val) >= Len(old.val)
         /\ \A n \in 1..Len(old.val) : Grown(old.val[n], new.val[n])
    ELSE Same(old, new)

C26_Step == Grown(rv, rv')

\* C26: no step of loads (a statement read, accepted or refused, or the
\* return) removes a key, rebinds a key that holds a scalar, or removes or
\* moves an element of a table array: the tree after the step holds all that
\* the tree before it held, and so does every later tree and the one returned.
C26_MonotonicGrowth == [][C26_Step]_vars

\* C26: loads returned a tree whose table array a got its second element after
\* the pair b = 1 was bound in its first
C26_SecondElement ==
    /\ status = "returned" /\ nstmts = 3
    /\ last.stmt.kind = "tarray"
    /\ Same(rv, VDict(<<Item(KA, VList(<<VDict(<<Item(KB, VInt(1))>>), EmptyDict>>))>>))

====
